---- MODULE Spec2Model ----
(***************************************************************************)
(* Model of adaptix's load-direction structural compiler                   *)
(* (src/src/adaptix/_internal/morphing/model/loader_gen.py).               *)
(*                                                                         *)
(* ModelLoaderGen.produce_code emits the body of a Python function from a  *)
(* crown; the model keeps the two levels apart.  The Gen* operators        *)
(* translate the generator methods and yield the emitted program as a      *)
(* sequence of statements; the actions execute one emitted statement each, *)
(* following Python's semantics for lookups, unbound locals and exception  *)
(* handler selection.                                                      *)
(***************************************************************************)
EXTENDS Integers, Sequences, FiniteSets, TLC

(***************************************************************************)
(* Bounds of the input space.                                              *)
(***************************************************************************)
\* number of distinct unknown keys an input mapping may carry
MaxExtraKeys == 1
\* number of items an input sequence may carry beyond the crown's length
MaxExtraItems == 1

(***************************************************************************)
(* External values.  Every value is a record of the same shape:            *)
(*   t  kind tag, m  mapping entries (key -> value), s  sequence items,    *)
(*   p  text of a primitive (sequence of characters / tokens).             *)
(* Keys are strings; the Python integer key i is written IdxKey(i).        *)
(***************************************************************************)
EmptyMap == [x \in {} |-> 0]

MapV(f) == [t |-> "map", m |-> f, s |-> <<>>, p |-> <<>>]

SeqV(items) == [t |-> "seq", m |-> EmptyMap, s |-> items, p |-> <<>>]

StrV(chars) == [t |-> "str", m |-> EmptyMap, s |-> <<>>, p |-> chars]

IntV(tok) == [t |-> "int", m |-> EmptyMap, s |-> <<>>, p |-> <<tok>>]

NoneV == [t |-> "none", m |-> EmptyMap, s |-> <<>>, p |-> <<>>]

\* a local variable of the emitted function that has not been assigned
Unbound == [t |-> "unbound", m |-> EmptyMap, s |-> <<>>, p |-> <<>>]

\* result of a field loader applied to raw value v
LoadedV(v) == [t |-> "loaded", m |-> EmptyMap, s |-> <<v>>, p |-> <<>>]

\* value produced by calling the default factory of field fid
MadeV(fid) == [t |-> "made", m |-> EmptyMap, s |-> <<>>, p |-> <<fid>>]

IdxKeys == <<"#0", "#1", "#2", "#3", "#4">>

IdxKey(i) == IdxKeys[i + 1]

IsIdx(key) == \E i \in 1..Len(IdxKeys) : IdxKeys[i] = key

Idx(key) == (CHOOSE i \in 1..Len(IdxKeys) : IdxKeys[i] = key) - 1

(***************************************************************************)
(* Crowns (crown_definitions, used by loader_gen.py:24-39).                *)
(***************************************************************************)
DictCrown(keys, ch, pol) == [k |-> "dict", keys |-> keys, ch |-> ch, pol |-> pol, id |-> ""]

ListCrown(ch, pol) == [k |-> "list", keys |-> <<>>, ch |-> ch, pol |-> pol, id |-> ""]

FieldCrown(id) == [k |-> "field", keys |-> <<>>, ch |-> <<>>, pol |-> "", id |-> id]

NoneCrown == [k |-> "none", keys |-> <<>>, ch |-> <<>>, pol |-> "", id |-> ""]

IsBranch(crown) == crown.k \in {"dict", "list"}

\* key of the i-th child: crown.map.items() / enumerate(crown.map)
ChildKey(crown, i) == IF crown.k = "dict" THEN crown.keys[i] ELSE IdxKey(i - 1)

RECURSIVE CrownAt(_, _)
CrownAt(crown, path) ==
    IF path = <<>> THEN crown
    ELSE LET i == CHOOSE j \in 1..Len(crown.ch) : ChildKey(crown, j) = Head(path)
         IN CrownAt(crown.ch[i], Tail(path))

RECURSIVE CrownPaths(_, _)
CrownPaths(crown, path) ==
    {path} \cup UNION {CrownPaths(crown.ch[i], Append(path, ChildKey(crown, i))) : i \in 1..Len(crown.ch)}

BranchPaths(crown) == {p \in CrownPaths(crown, <<>>) : IsBranch(CrownAt(crown, p))}

ParentPath(path) == SubSeq(path, 1, Len(path) - 1)

LastEl(path) == path[Len(path)]

(***************************************************************************)
(* Shape, name layout and generator configuration (ModelLoaderGen.__init__)*)
(*   cfg.crown        name_layout.crown                                    *)
(*   cfg.extra_move   name_layout.extra_move: [k, fields], k in            *)
(*                    "none" | "kwargs" | "saturate" | "targets"           *)
(*   cfg.fields       shape.fields: id -> [req, dflt], dflt in             *)
(*                    "none" | "value" | "factory"                         *)
(*   cfg.params       shape.params: sequence of [field_id, kind]           *)
(*   cfg.trail        debug_trail: "DISABLE" | "FIRST" | "ALL"             *)
(*   cfg.strict       strict_coercion                                      *)
(*   cfg.as_is        ids of the fields whose loader is as_is_stub         *)
(*   cfg.use_default_for_omitted   props.use_default_for_omitted           *)
(***************************************************************************)
can_collect_extra(cfg) == cfg.extra_move.k # "none"

SeqRange(sq) == {sq[i] : i \in 1..Len(sq)}

is_extra_target(cfg, fid) ==
    /\ cfg.extra_move.k = "targets"
    /\ fid \in SeqRange(cfg.extra_move.fields)

\* faulty variant: the declared default does not keep an optional field out of packed_fields
is_packed_field_ignoring_default(cfg, fid) ==
    (~cfg.fields[fid].req) /\ ~is_extra_target(cfg, fid)

is_packed_field(cfg, fid) ==
    IF cfg.use_default_for_omitted /\ cfg.fields[fid].dflt \in {"value", "factory"}
    THEN FALSE
    ELSE (~cfg.fields[fid].req) /\ ~is_extra_target(cfg, fid)

has_packed_fields(cfg) == \E fid \in DOMAIN cfg.fields : is_packed_field(cfg, fid)

get_dict_crown_required_keys(cfg, crown) ==
    {crown.keys[i] : i \in {j \in 1..Len(crown.ch) :
        ~(crown.ch[j].k = "field" /\ ~cfg.fields[crown.ch[j].id].req)}}

known_keys(crown) == SeqRange(crown.keys)

(***************************************************************************)
(* Emitted statements.  One record per statement group that the generator  *)
(* writes with a single builder call:                                      *)
(*   op       statement kind                                               *)
(*   path     crown path of the node the statement was emitted for         *)
(*   fid      field id (field statements)                                  *)
(*   badtype  the 'except <bad_type_error>' clause was emitted             *)
(*   onle     body of the lookup-error clause:                             *)
(*            "notfound" | "pass" | "default"                              *)
(*   packed   the assignment target is packed_fields[...]                  *)
(*   arg      loader argument of an extra-target assignment                *)
(***************************************************************************)
Stmt(op, path, fid, badtype, onle, packed, arg) ==
    [op |-> op, path |-> path, fid |-> fid, badtype |-> badtype,
     onle |-> onle, packed |-> packed, arg |-> arg]

Emit(st, op, path) ==
    [st EXCEPT !.code = Append(@, Stmt(op, path, "", FALSE, "", FALSE, ""))]

gen_assigment_from_parent_data(st, op, path, fid, onle, packed) ==
    LET parent == ParentPath(path)
    IN [code |-> Append(st.code, Stmt(op, path, fid, parent \notin st.tc, onle, packed, "")),
        tc   |-> st.tc \cup {parent}]

gen_optional_field_extraction_from_mapping(st, path, fid, onle, packed) ==
    LET parent == ParentPath(path)
    IN IF parent \in st.tc
       THEN [st EXCEPT !.code = Append(@, Stmt("field_in", path, fid, FALSE, onle, packed, ""))]
       ELSE [code |-> Append(st.code, Stmt("field_getter", path, fid, TRUE, onle, packed, "")),
             tc   |-> st.tc \cup {parent}]

gen_field_crown(cfg, st, crown, path) ==
    IF cfg.fields[crown.id].req
    THEN gen_assigment_from_parent_data(st, "field_fetch", path, crown.id, "notfound", FALSE)
    ELSE LET packed == is_packed_field(cfg, crown.id)
             onle   == IF packed THEN "pass" ELSE "default"
         IN IF IsIdx(LastEl(path))
            THEN gen_assigment_from_parent_data(st, "field_fetch", path, crown.id, onle, packed)
            ELSE gen_optional_field_extraction_from_mapping(st, path, crown.id, onle, packed)

\* _maybe_wrap_with_type_load_error_catching wraps unless this holds
NoWrap(cfg, path) == cfg.trail # "ALL" \/ path = <<>>

RECURSIVE gen_crown_dispatch(_, _, _, _)
RECURSIVE gen_children(_, _, _, _, _)

gen_dict_crown(cfg, st, crown, path) ==
    LET s1 == IF path # <<>>
              THEN gen_assigment_from_parent_data(st, "branch_fetch", path, "", "notfound", FALSE)
              ELSE st
        s2 == IF can_collect_extra(cfg) THEN Emit(s1, "init_extra", path) ELSE s1
        s3 == IF cfg.trail = "ALL" THEN Emit(s2, "init_not_found", path) ELSE s2
        s4 == IF NoWrap(cfg, path) THEN s3 ELSE Emit(s3, "try", path)
        s5 == gen_children(cfg, s4, crown, path, 1)
        s6 == IF path \notin s5.tc
              THEN [code |-> Append(s5.code, Stmt("isinstance_check", path, "", FALSE, "", FALSE, "")),
                    tc   |-> s5.tc \cup {path}]
              ELSE s5
        s7 == IF crown.pol = "forbid" THEN Emit(s6, "forbid_fields", path)
              ELSE IF crown.pol = "collect" THEN Emit(s6, "collect_fields", path)
              ELSE s6
        s8 == IF NoWrap(cfg, path) THEN s7 ELSE Emit(s7, "end_try", path)
    IN IF can_collect_extra(cfg) /\ path # <<>> THEN Emit(s8, "add_extra", path) ELSE s8

gen_list_crown(cfg, st, crown, path) ==
    LET s1 == IF path # <<>>
              THEN gen_assigment_from_parent_data(st, "branch_fetch", path, "", "notfound", FALSE)
              ELSE st
        s2 == IF can_collect_extra(cfg) THEN Emit(s1, "init_extra", path) ELSE s1
        s3 == IF NoWrap(cfg, path) THEN s2 ELSE Emit(s2, "try", path)
        s4 == IF cfg.strict THEN Emit(s3, "str_check", path) ELSE s3
        s5 == gen_children(cfg, s4, crown, path, 1)
        s6 == IF path \notin s5.tc
              THEN [code |-> Append(s5.code, Stmt("isinstance_check", path, "", FALSE, "", FALSE, "")),
                    tc   |-> s5.tc \cup {path}]
              ELSE s5
        s7 == Emit(s6, "len_check", path)
        s8 == IF NoWrap(cfg, path) THEN s7 ELSE Emit(s7, "end_try", path)
    IN IF can_collect_extra(cfg) /\ path # <<>> THEN Emit(s8, "add_extra", path) ELSE s8

gen_crown_dispatch(cfg, st, crown, path) ==
    IF crown.k = "dict" THEN gen_dict_crown(cfg, st, crown, path)
    ELSE IF crown.k = "list" THEN gen_list_crown(cfg, st, crown, path)
    ELSE IF crown.k = "field" THEN gen_field_crown(cfg, st, crown, path)
    ELSE st

gen_children(cfg, st, crown, path, i) ==
    IF i > Len(crown.ch) THEN st
    ELSE gen_children(cfg,
                      gen_crown_dispatch(cfg, st, crown.ch[i], Append(path, ChildKey(crown, i))),
                      crown, path, i + 1)

\* faulty variant: every designated field's loader gets an empty mapping
RECURSIVE gen_extra_targets_assigment_of_nothing(_, _, _)
gen_extra_targets_assigment_of_nothing(cfg, st, i) ==
    IF cfg.extra_move.k # "targets" \/ i > Len(cfg.extra_move.fields) THEN st
    ELSE LET target == cfg.extra_move.fields[i]
             next == IF cfg.crown.pol = "collect" \/ cfg.fields[target].req
                     THEN [st EXCEPT !.code = Append(@,
                              Stmt("target_assign", <<>>, target, FALSE, "", FALSE, "empty"))]
                     ELSE st
         IN gen_extra_targets_assigment_of_nothing(cfg, next, i + 1)

RECURSIVE gen_extra_targets_assigment(_, _, _)
gen_extra_targets_assigment(cfg, st, i) ==
    IF cfg.extra_move.k # "targets" \/ i > Len(cfg.extra_move.fields) THEN st
    ELSE LET target == cfg.extra_move.fields[i]
             collect == cfg.crown.pol = "collect"
             next == IF collect \/ cfg.fields[target].req
                     THEN [st EXCEPT !.code = Append(@,
                              Stmt("target_assign", <<>>, target, FALSE, "", FALSE,
                                   IF collect THEN "extra" ELSE "empty"))]
                     ELSE st
         IN gen_extra_targets_assigment(cfg, next, i + 1)

\* faulty variant: the saturator call is not emitted
gen_constructor_call_without_saturator(cfg, st) ==
    IF cfg.extra_move.k = "saturate"
    THEN Emit(Emit(st, "construct", <<>>), "return_result", <<>>)
    ELSE Emit(st, "return_construct", <<>>)

gen_constructor_call(cfg, st) ==
    IF cfg.extra_move.k = "saturate"
    THEN Emit(Emit(Emit(st, "construct", <<>>), "saturate", <<>>), "return_result", <<>>)
    ELSE Emit(st, "return_construct", <<>>)

\* The inner 'try: value = getter(key, sentinel)' of
\* _gen_optional_field_extraction_from_mapping gets its except clause from
\* _gen_unexpected_exc_catching, which emits none under DebugTrail.DISABLE: the
\* body then has a try block without a handler and cannot be compiled.
Compiles(cfg, prog) ==
    ~\E i \in 1..Len(prog) : prog[i].op = "field_getter" /\ cfg.trail = "DISABLE"

(***************************************************************************)
(* The text of the emitted body, as far as its block structure goes: one   *)
(* line per clause header (try, except, else, if, for) or simple statement *)
(* (stmt), with its indentation depth.                                     *)
(***************************************************************************)
Line(kw, depth) == [kw |-> kw, depth |-> depth]

\* _gen_field_assigment
field_assigment_text(cfg, d) ==
    IF cfg.trail \in {"ALL", "FIRST"}
    THEN <<Line("try", d), Line("stmt", d + 1), Line("except", d), Line("stmt", d + 1)>>
    ELSE <<Line("stmt", d)>>

\* _gen_unexpected_exc_catching: no clause at all under DISABLE
unexpected_exc_catching_text(cfg, d) ==
    IF cfg.trail \in {"ALL", "FIRST"}
    THEN <<Line("except", d), Line("stmt", d + 1), Line("stmt", d + 1)>>
    ELSE <<>>

\* _gen_assigment_from_parent_data
assigment_from_parent_data_text(cfg, stmt, d) ==
    <<Line("try", d), Line("stmt", d + 1), Line("except", d)>>
    \o (IF stmt.onle = "notfound" /\ cfg.trail = "ALL" /\ ~IsIdx(LastEl(stmt.path))
        THEN <<Line("if", d + 1), Line("stmt", d + 2), Line("stmt", d + 2)>>
        ELSE <<Line("stmt", d + 1)>>)
    \o (IF stmt.badtype THEN <<Line("except", d), Line("stmt", d + 1)>> ELSE <<>>)
    \o unexpected_exc_catching_text(cfg, d)

\* _gen_optional_field_extraction_from_mapping, the branch that asks the parent for its getter
optional_field_getter_text(cfg, d) ==
    <<Line("try", d), Line("stmt", d + 1), Line("except", d), Line("stmt", d + 1)>>
    \o unexpected_exc_catching_text(cfg, d)
    \o <<Line("else", d), Line("try", d + 1), Line("stmt", d + 2)>>
    \o unexpected_exc_catching_text(cfg, d + 1)
    \o <<Line("else", d + 1), Line("if", d + 2), Line("stmt", d + 3), Line("else", d + 2)>>
    \o field_assigment_text(cfg, d + 3)

\* the lines of one emitted statement group, written at depth d
stmt_text(cfg, stmt, d) ==
    CASE stmt.op = "branch_fetch" -> assigment_from_parent_data_text(cfg, stmt, d)
      [] stmt.op = "field_fetch" ->
            assigment_from_parent_data_text(cfg, stmt, d) \o <<Line("else", d)>>
            \o field_assigment_text(cfg, d + 1)
      [] stmt.op = "field_in" ->
            <<Line("if", d)>> \o field_assigment_text(cfg, d + 1)
            \o <<Line("else", d), Line("stmt", d + 1)>>
      [] stmt.op = "field_getter" -> optional_field_getter_text(cfg, d)
      [] stmt.op = "try" -> <<Line("try", d)>>
      [] stmt.op = "end_try" -> <<Line("except", d - 1), Line("stmt", d)>>
      [] stmt.op \in {"str_check", "isinstance_check"} -> <<Line("if", d), Line("stmt", d + 1)>>
      [] stmt.op = "forbid_fields" -> <<Line("stmt", d), Line("if", d), Line("stmt", d + 1)>>
      [] stmt.op = "collect_fields" -> <<Line("for", d), Line("stmt", d + 1)>>
      [] stmt.op = "len_check" ->
            IF CrownAt(cfg.crown, stmt.path).pol = "forbid"
            THEN <<Line("if", d), Line("if", d + 1), Line("stmt", d + 2),
                   Line("else", d + 1), Line("stmt", d + 2)>>
            ELSE <<Line("if", d), Line("stmt", d + 1)>>
      [] stmt.op = "target_assign" -> field_assigment_text(cfg, d)
      [] stmt.op = "raise_if_errors" ->
            <<Line("if", d), Line("if", d + 1), Line("stmt", d + 2), Line("stmt", d + 1)>>
      [] OTHER -> <<Line("stmt", d)>>

\* the whole body: statements inside a 'try:' wrapper are one level deeper
RECURSIVE body_text(_, _, _, _)
body_text(cfg, prog, i, d) ==
    IF i > Len(prog) THEN <<>>
    ELSE stmt_text(cfg, prog[i], d)
         \o body_text(cfg, prog, i + 1,
                      IF prog[i].op = "try" THEN d + 1
                      ELSE IF prog[i].op = "end_try" THEN d - 1 ELSE d)

\* the clause the line at i continues (the nearest earlier line that is not deeper), 0 if none
PrevAtDepth(text, i) ==
    LET before == {j \in 1..(i - 1) : text[j].depth <= text[i].depth}
    IN IF before = {} THEN 0 ELSE CHOOSE j \in before : \A k \in before : k <= j

\* the clause that follows the block of the line at i, 0 if none
NextAtDepth(text, i) ==
    LET after == {j \in (i + 1)..Len(text) : text[j].depth <= text[i].depth}
    IN IF after = {} THEN 0 ELSE CHOOSE j \in after : \A k \in after : j <= k

Headers == {"try", "except", "else", "if", "for"}

\* what the Python grammar asks of the block structure
WellFormed(text) ==
    \A i \in 1..Len(text) :
        LET p == PrevAtDepth(text, i)
            n == NextAtDepth(text, i)
            joins(kws) == p # 0 /\ text[p].depth = text[i].depth /\ text[p].kw \in kws
        IN /\ text[i].kw \in Headers =>
                i < Len(text) /\ text[i + 1].depth = text[i].depth + 1
           /\ IF i = 1 THEN text[i].depth = 0
              ELSE text[i].depth > text[i - 1].depth =>
                      text[i - 1].kw \in Headers /\ text[i].depth = text[i - 1].depth + 1
           /\ text[i].kw = "try" =>
                n # 0 /\ text[n].depth = text[i].depth /\ text[n].kw = "except"
           /\ text[i].kw = "except" => joins({"try", "except"})
           /\ text[i].kw = "else" => joins({"except", "if", "for"})

produce_code(cfg) ==
    LET s0 == [code |-> <<>>, tc |-> {}]
        s1 == IF cfg.trail = "ALL" THEN Emit(s0, "init_errors", <<>>) ELSE s0
        s2 == IF has_packed_fields(cfg) THEN Emit(s1, "init_packed", <<>>) ELSE s1
        s3 == gen_crown_dispatch(cfg, s2, cfg.crown, <<>>)
        s4 == gen_extra_targets_assigment(cfg, s3, 1)
        s5 == IF cfg.trail = "ALL" THEN Emit(s4, "raise_if_errors", <<>>) ELSE s4
    IN gen_constructor_call(cfg, s5).code

(***************************************************************************)
(* Exceptions.  kind is the Python class name, trail the struct trail      *)
(* attached by append_trail/extend_trail, keys the field set of            *)
(* NoRequiredFieldsError/ExtraFieldsError, n the expected length of        *)
(* NoRequiredItemsError/ExtraItemsError, causes the members of a group.    *)
(***************************************************************************)
Exc(kind, keys, n) == [kind |-> kind, trail |-> <<>>, keys |-> keys, n |-> n, causes |-> <<>>]

NoExc == Exc("", {}, 0)

Group(kind, causes) == [kind |-> kind, trail |-> <<>>, keys |-> {}, n |-> 0, causes |-> causes]

\* load_error.py hierarchy imported at loader_gen.py:12-21
LoadErrorKinds ==
    {"LoadError", "TypeLoadError", "ExcludedTypeLoadError", "ExtraFieldsError", "ExtraItemsError",
     "NoRequiredFieldsError", "NoRequiredItemsError", "AggregateLoadError"}

TypeLoadErrorKinds == {"TypeLoadError", "ExcludedTypeLoadError"}

\* faulty variant: append_trail with the last path element where extend_trail is due
with_trail_last_element(trail_mode, path, e) ==
    IF trail_mode \in {"FIRST", "ALL"} /\ path # <<>>
    THEN [e EXCEPT !.trail = <<path[Len(path)]>> \o @]
    ELSE e

\* Namer.with_trail
with_trail(trail_mode, path, e) ==
    IF trail_mode \in {"FIRST", "ALL"} THEN [e EXCEPT !.trail = path \o @] ELSE e

(***************************************************************************)
(* Python primitives used by the emitted statements.                       *)
(***************************************************************************)
Ok(v) == [err |-> "", v |-> v]

Fail(kind) == [err |-> kind, v |-> Unbound]

\* d[key]
Subscript(d, key) ==
    IF d.t = "unbound" THEN Fail("UnboundLocalError")
    ELSE IF d.t = "map" THEN (IF key \in DOMAIN d.m THEN Ok(d.m[key]) ELSE Fail("KeyError"))
    ELSE IF ~IsIdx(key) THEN Fail("TypeError")
    ELSE IF d.t = "seq" THEN (IF Idx(key) < Len(d.s) THEN Ok(d.s[Idx(key) + 1]) ELSE Fail("IndexError"))
    ELSE IF d.t = "str" THEN (IF Idx(key) < Len(d.p) THEN Ok(StrV(<<d.p[Idx(key) + 1]>>)) ELSE Fail("IndexError"))
    ELSE Fail("TypeError")

\* len(d)
PyLen(d) ==
    IF d.t = "unbound" THEN [err |-> "UnboundLocalError", n |-> 0]
    ELSE IF d.t = "map" THEN [err |-> "", n |-> Cardinality(DOMAIN d.m)]
    ELSE IF d.t = "seq" THEN [err |-> "", n |-> Len(d.s)]
    ELSE IF d.t = "str" THEN [err |-> "", n |-> Len(d.p)]
    ELSE [err |-> "TypeError", n |-> 0]

\* isinstance(d, CollectionsMapping)
IsMapping(d) == d.t = "map"

\* isinstance(d, CollectionsSequence)
IsSequence(d) == d.t \in {"seq", "str"}

(***************************************************************************)
(* Elementary field loaders: supplied to the generator, not produced by    *)
(* it.  The loader of the model rejects the token "LE" with a LoadError,   *)
(* fails on "BAD" with an exception that is not a LoadError, and wraps     *)
(* every other raw value.                                                  *)
(***************************************************************************)
BadV == IntV("BAD")

RejV == IntV("LE")

field_loader(v) ==
    IF v = BadV THEN Fail("ValueError")
    ELSE IF v = RejV THEN Fail("LoadError")
    ELSE Ok(LoadedV(v))

\* processing_expr of _gen_field_assigment
processing_expr(cfg, fid, v) == IF fid \in cfg.as_is THEN Ok(v) ELSE field_loader(v)

(***************************************************************************)
(* Shapes, crowns and inputs the loader is exercised on.                   *)
(***************************************************************************)
OkV == IntV("1")

Absent == Unbound

Field(req, dflt, dv) == [req |-> req, dflt |-> dflt, dv |-> dv]

Param(fid, kind) == [field_id |-> fid, name |-> fid, kind |-> kind]

ExtraMove(k, fields) == [k |-> k, fields |-> fields]

Cfg(name, crown, fields, params, em, trail, strict, as_is, udfo) ==
    [name |-> name, crown |-> crown, fields |-> fields, params |-> params, extra_move |-> em,
     trail |-> trail, strict |-> strict, as_is |-> as_is, use_default_for_omitted |-> udfo]

DebugTrails == {"DISABLE", "FIRST", "ALL"}

\* name-layout combinations accepted by ModelLoaderProvider._validate_params:
\* a Collect policy needs an extra_move
PolicyMoves ==
    {pm \in {"forbid", "skip", "collect"} \X {"none", "kwargs", "saturate"} :
        pm[1] = "collect" => pm[2] # "none"}

ExtraKeyNames == SubSeq(<<"extra", "extra2", "extra3", "extra4">>, 1, MaxExtraKeys)

\* all mappings that give each key of the sequence keys one of opts[key], Absent meaning no entry
RECURSIVE MapsOver(_, _)
MapsOver(keys, opts) ==
    IF keys = <<>> THEN {EmptyMap}
    ELSE {IF v = Absent THEN f ELSE (Head(keys) :> v) @@ f :
            f \in MapsOver(Tail(keys), opts), v \in opts[Head(keys)]}

WithExtras(opts) == opts @@ [e \in SeqRange(ExtraKeyNames) |-> {Absent, OkV}]

KeysOf(opts) ==
    LET D == DOMAIN opts
        RECURSIVE ToSeq(_)
        ToSeq(S) == IF S = {} THEN <<>> ELSE LET x == CHOOSE y \in S : TRUE IN <<x>> \o ToSeq(S \ {x})
    IN ToSeq(D)

MapValues(opts) == {MapV(f) : f \in MapsOver(KeysOf(opts), opts)}

\* sequences of OkV of every length up to n
OkSeqs(n) == {SeqV([i \in 1..len |-> OkV]) : len \in 0..n}

(* The record of the specification's scenario: id and name required, name  *)
(* mapped to "full_name", tags optional.                                   *)
FlatCrown(pol) ==
    DictCrown(<<"id", "full_name", "tags">>,
              <<FieldCrown("id"), FieldCrown("name"), FieldCrown("tags")>>, pol)

FlatFields(dflt) ==
    [id |-> Field(TRUE, "none", NoneV), name |-> Field(TRUE, "none", NoneV),
     tags |-> Field(FALSE, dflt, SeqV(<<>>))]

FlatParams == <<Param("id", "POS_OR_KW"), Param("name", "POS_OR_KW"), Param("tags", "KW_ONLY")>>

FlatCfgs ==
    {Cfg("flat", FlatCrown(pm[1]), FlatFields(dflt), FlatParams, ExtraMove(pm[2], <<>>),
         trail, TRUE, {}, TRUE) :
        pm \in PolicyMoves, dflt \in {"value", "factory", "none"}, trail \in DebugTrails}

FlatInputs ==
    {IntV("1"), SeqV(<<>>)} \cup
    MapValues(WithExtras([id |-> {Absent, OkV, BadV, RejV}, full_name |-> {Absent, OkV},
                          tags |-> {Absent, OkV, BadV}]))

(* Three sibling branches under a dict root: a and b are dict crowns, c is *)
(* a list crown; u has a default, w has none.                              *)
NestedCrown(rootPol, pol) ==
    DictCrown(<<"a", "b", "c">>,
              <<DictCrown(<<"x", "u">>, <<FieldCrown("x"), FieldCrown("u")>>, pol),
                DictCrown(<<"y", "w">>, <<FieldCrown("y"), FieldCrown("w")>>, pol),
                ListCrown(<<FieldCrown("z")>>, pol)>>, rootPol)

NestedFields ==
    [x |-> Field(TRUE, "none", NoneV), u |-> Field(FALSE, "value", NoneV),
     w |-> Field(FALSE, "none", NoneV), y |-> Field(TRUE, "none", NoneV),
     z |-> Field(TRUE, "none", NoneV)]

NestedParams ==
    <<Param("x", "POS_OR_KW"), Param("u", "POS_OR_KW"), Param("w", "KW_ONLY"),
      Param("y", "KW_ONLY"), Param("z", "KW_ONLY")>>

NestedPolicies ==
    {<<"forbid", "forbid", "none">>, <<"skip", "skip", "none">>, <<"collect", "collect", "kwargs">>}

NestedCfgs ==
    {Cfg("nested", NestedCrown(pp[1], pp[2]), NestedFields, NestedParams, ExtraMove(pp[3], <<>>),
         trail, TRUE, {"u"}, TRUE) :
        pp \in NestedPolicies, trail \in DebugTrails}

NestedInputs ==
    {IntV("1")} \cup
    MapValues(
        [a |-> {Absent, IntV("1")} \cup
               MapValues(WithExtras([x |-> {Absent, OkV, BadV}, u |-> {Absent, OkV}])),
         b |-> {Absent, SeqV(<<>>)} \cup
               MapValues([w |-> {Absent, OkV}, y |-> {Absent, OkV}]),
         c |-> {Absent, IntV("1"), MapV(EmptyMap), MapV("#0" :> OkV), StrV(<<"s">>)} \cup
               OkSeqs(1 + MaxExtraItems)])

(* A list crown at the root with a discarded slot between two fields.      *)
ListRootCrown(pol) == ListCrown(<<FieldCrown("x"), NoneCrown, FieldCrown("y")>>, pol)

ListRootFields == [x |-> Field(TRUE, "none", NoneV), y |-> Field(TRUE, "none", NoneV)]

ListRootParams == <<Param("x", "POS_ONLY"), Param("y", "POS_ONLY")>>

ListRootCfgs ==
    {Cfg("list", ListRootCrown(pm[1]), ListRootFields, ListRootParams, ExtraMove(pm[2], <<>>),
         trail, strict, {}, TRUE) :
        pm \in {q \in PolicyMoves : q[2] # "kwargs"}, trail \in DebugTrails, strict \in BOOLEAN}

ListRootInputs ==
    {IntV("1"), NoneV, MapV(EmptyMap), MapV(("#0" :> OkV) @@ ("#1" :> OkV) @@ ("#2" :> OkV)),
     StrV(<<"a", "b", "c">>), SeqV(<<BadV, OkV, OkV>>), SeqV(<<OkV, OkV, RejV>>)}
    \cup OkSeqs(3 + MaxExtraItems)

(* A branch without any field leaf next to a required field.               *)
HollowCrown(pol) ==
    DictCrown(<<"d", "x">>, <<DictCrown(<<>>, <<>>, pol), FieldCrown("x")>>, pol)

HollowFields == [x |-> Field(TRUE, "none", NoneV)]

HollowParams == <<Param("x", "POS_OR_KW")>>

HollowCfgs ==
    {Cfg("hollow", HollowCrown(pm[1]), HollowFields, HollowParams, ExtraMove(pm[2], <<>>),
         trail, TRUE, {}, TRUE) :
        pm \in PolicyMoves, trail \in DebugTrails}

HollowInputs ==
    {SeqV(<<>>)} \cup
    MapValues([d |-> {Absent, IntV("1")} \cup MapValues(WithExtras(EmptyMap)),
               x |-> {Absent, OkV}])

(* Unknown data routed to a designated field (ExtraTargets).                *)
TargetsCrown(pol) == DictCrown(<<"id">>, <<FieldCrown("id")>>, pol)

TargetsFields(req) ==
    [id |-> Field(TRUE, "none", NoneV),
     rest |-> Field(req, IF req THEN "none" ELSE "value", MapV(EmptyMap))]

TargetsParams == <<Param("id", "POS_OR_KW"), Param("rest", "KW_ONLY")>>

\* a second designated field, required
TwoTargetsFields(req) == TargetsFields(req) @@ [more |-> Field(TRUE, "none", NoneV)]

TwoTargetsParams == Append(TargetsParams, Param("more", "KW_ONLY"))

TargetsCfgs ==
    {Cfg("targets", TargetsCrown(pol), TargetsFields(req), TargetsParams,
         ExtraMove("targets", <<"rest">>), trail, TRUE, {}, TRUE) :
        pol \in {"forbid", "skip", "collect"}, req \in BOOLEAN, trail \in DebugTrails}
    \cup
    {Cfg("targets", TargetsCrown(pol), TwoTargetsFields(req), TwoTargetsParams,
         ExtraMove("targets", <<"rest", "more">>), trail, TRUE, {}, TRUE) :
        pol \in {"forbid", "skip", "collect"}, req \in BOOLEAN, trail \in DebugTrails}

TargetsInputs ==
    {IntV("1")} \cup MapValues(WithExtras([id |-> {Absent, OkV, BadV}]))

(* A nested dict crown whose first child is an optional field.             *)
GetterCrown(pol) ==
    DictCrown(<<"g", "x">>,
              <<DictCrown(<<"w", "v">>, <<FieldCrown("w"), FieldCrown("v")>>, pol),
                FieldCrown("x")>>, pol)

GetterFields ==
    [w |-> Field(FALSE, "none", NoneV), v |-> Field(FALSE, "factory", NoneV),
     x |-> Field(TRUE, "none", NoneV)]

GetterParams == <<Param("x", "POS_OR_KW"), Param("w", "KW_ONLY"), Param("v", "KW_ONLY")>>

GetterCfgs ==
    {Cfg("getter", GetterCrown(pm[1]), GetterFields, GetterParams, ExtraMove(pm[2], <<>>),
         trail, TRUE, {}, TRUE) :
        pm \in PolicyMoves, trail \in DebugTrails}

GetterInputs ==
    MapValues([g |-> {Absent, SeqV(<<>>)} \cup
                     MapValues(WithExtras([w |-> {Absent, OkV, RejV}, v |-> {Absent, OkV}])),
               x |-> {Absent, OkV}])

(* A list branch followed by a sibling dict branch.                         *)
LeadingListCrown(pol) ==
    DictCrown(<<"c", "d">>, <<ListCrown(<<FieldCrown("z")>>, pol), DictCrown(<<>>, <<>>, pol)>>, pol)

LeadingListFields == [z |-> Field(TRUE, "none", NoneV)]

LeadingListParams == <<Param("z", "POS_OR_KW")>>

LeadingListCfgs ==
    {Cfg("leading_list", LeadingListCrown(pm[1]), LeadingListFields, LeadingListParams,
         ExtraMove(pm[2], <<>>), trail, strict, {}, TRUE) :
        pm \in {<<"forbid", "none">>, <<"collect", "kwargs">>}, trail \in DebugTrails,
        strict \in BOOLEAN}

LeadingListInputs ==
    MapValues([c |-> {Absent, StrV(<<"s">>), IntV("1")} \cup OkSeqs(1 + MaxExtraItems),
               d |-> {Absent, MapV(EmptyMap)}])

(* A list crown that holds a dict branch after a field.                     *)
ItemsCrown(pol) ==
    ListCrown(<<FieldCrown("z"), DictCrown(<<"x">>, <<FieldCrown("x")>>, pol)>>, pol)

ItemsFields == [z |-> Field(TRUE, "none", NoneV), x |-> Field(TRUE, "none", NoneV)]

ItemsParams == <<Param("z", "POS_ONLY"), Param("x", "KW_ONLY")>>

ItemsCfgs ==
    {Cfg("items", ItemsCrown(pm[1]), ItemsFields, ItemsParams, ExtraMove(pm[2], <<>>),
         trail, TRUE, {}, TRUE) :
        pm \in {q \in PolicyMoves : q[2] # "kwargs"}, trail \in DebugTrails}

ItemsInputs ==
    {SeqV(<<OkV>>)} \cup
    {SeqV(<<OkV, d>> \o more) :
        d \in {IntV("1")} \cup MapValues(WithExtras([x |-> {Absent, OkV}])),
        more \in {<<>>, <<OkV>>}}

Runs ==
    (FlatCfgs \X FlatInputs) \cup (NestedCfgs \X NestedInputs)
    \cup (ListRootCfgs \X ListRootInputs) \cup (HollowCfgs \X HollowInputs)
    \cup (TargetsCfgs \X TargetsInputs) \cup (GetterCfgs \X GetterInputs)
    \cup (LeadingListCfgs \X LeadingListInputs) \cup (ItemsCfgs \X ItemsInputs)

(***************************************************************************)
(* Dump direction: BuiltinOutputExtractionGen                              *)
(* (src/dataclass_factory_30/provider/model/output_extraction_gen.py).     *)
(* generate_output_extraction emits one statement per field of the figure  *)
(* and the statements that fill the unknown-data slot; the operators below *)
(* yield them as a sequence of records                                     *)
(*   op     the statement, field  the figure field it reads,               *)
(*   on_ok  where the dumped value goes, on_access_error  the body of the  *)
(*          handler of the declared access error.                          *)
(***************************************************************************)
OutputField(name, is_required) ==
    [name |-> name, is_required |-> is_required,
     access_error |-> IF is_required THEN "" ELSE "AttributeError"]

OutputFigure(fields, extra) == [fields |-> fields, extra |-> extra]

ExtraTargets(fields) == [k |-> "targets", fields |-> fields]

ExtraExtract == [k |-> "extract", fields |-> <<>>]

NoExtra == [k |-> "none", fields |-> <<>>]

\* BuiltinOutputExtractionGen.__init__
extra_targets(figure) == IF figure.extra.k = "targets" THEN figure.extra.fields ELSE <<>>

\* name_to_fields[field_name]
name_to_field(figure, name) ==
    figure.fields[CHOOSE i \in 1..Len(figure.fields) : figure.fields[i].name = name]

DumpStmt(op, field, on_ok, on_access_error) ==
    [op |-> op, field |-> field, on_ok |-> on_ok, on_access_error |-> on_access_error]

gen_required_field_extraction(body, field, on_ok) ==
    Append(body, DumpStmt("required_field_extraction", field, on_ok, ""))

gen_optional_field_extraction(body, field, on_ok, on_access_error) ==
    Append(body, DumpStmt("optional_field_extraction", field, on_ok, on_access_error))

gen_field_extraction(body, field, on_ok_req, on_ok_opt, on_access_error) ==
    IF field.is_required
    THEN gen_required_field_extraction(body, field, on_ok_req)
    ELSE gen_optional_field_extraction(body, field, on_ok_opt, on_access_error)

\* the loop of generate_output_extraction over figure.fields, from field i on
RECURSIVE gen_fields_extraction(_, _, _)
gen_fields_extraction(figure, body, i) ==
    IF i > Len(figure.fields) THEN body
    ELSE gen_fields_extraction(figure,
            IF \E j \in 1..Len(extra_targets(figure)) : extra_targets(figure)[j] = figure.fields[i].name
            THEN body
            ELSE gen_field_extraction(body, figure.fields[i], "field", "opt_fields", "pass"),
            i + 1)

\* the loops of _gen_extra_target_extraction over the targets, from target i on
RECURSIVE gen_targets_extraction(_, _, _, _)
gen_targets_extraction(figure, body, i, fast) ==
    IF i > Len(extra_targets(figure)) THEN body
    ELSE LET field == name_to_field(figure, extra_targets(figure)[i])
         IN gen_targets_extraction(figure,
                IF fast THEN gen_required_field_extraction(body, field, "field")
                ELSE gen_field_extraction(body, field, "extra_stack", "extra_stack", "pass"),
                i + 1, fast)

gen_extra_target_extraction(figure, body) ==
    IF Len(extra_targets(figure)) = 1
    THEN gen_field_extraction(body, name_to_field(figure, extra_targets(figure)[1]),
                              "extra", "extra", "extra_empty")
    ELSE IF \A i \in 1..Len(figure.fields) : figure.fields[i].is_required
    THEN Append(gen_targets_extraction(figure, body, 1, TRUE),
                DumpStmt("extra_unpack", OutputField("", TRUE), "extra", ""))
    ELSE Append(gen_targets_extraction(figure,
                    Append(body, DumpStmt("extra_stack_init", OutputField("", TRUE), "extra_stack", "")),
                    1, FALSE),
                DumpStmt("extra_stack_merge", OutputField("", TRUE), "extra", ""))

gen_extra_extraction(figure, body) ==
    IF figure.extra.k = "targets" THEN gen_extra_target_extraction(figure, body)
    ELSE IF figure.extra.k = "extract"
    THEN Append(body, DumpStmt("extra_extract", OutputField("", TRUE), "extra", ""))
    ELSE body

generate_output_extraction(figure) ==
    gen_extra_extraction(figure, gen_fields_extraction(figure, <<>>, 1))

\* Without debug_path the handler of _gen_optional_field_extraction is rendered
\* from the exception class itself ('except <class ...>:'), not from the name
\* bound to it: the emitted body cannot be compiled.
extraction_compiles(body, debug_path) ==
    debug_path \/ \A i \in 1..Len(body) : body[i].op # "optional_field_extraction"

(***************************************************************************)
(* Elementary dumpers: supplied to the generator, not produced by it.  The *)
(* dumper of the model is the counterpart of field_loader: it unwraps a    *)
(* loaded value, fails on the loaded "LE" with a SerializeError that       *)
(* already carries a path, and on the loaded "BAD" with an exception       *)
(* that is not a SerializeError.                                           *)
(***************************************************************************)
DumpedV(v) == [t |-> "dumped", m |-> EmptyMap, s |-> <<v>>, p |-> <<>>]

\* an attribute whose getter raises (a failing property)
RaisingV == [t |-> "raising", m |-> EmptyMap, s |-> <<>>, p |-> <<>>]

InnerPath == <<"inner">>

field_serializer(v) ==
    IF v.t # "loaded" THEN Ok(DumpedV(v))
    ELSE IF v.s[1] = BadV THEN Fail("ValueError")
    ELSE IF v.s[1] = RejV THEN Fail("SerializeError")
    ELSE Ok(v.s[1])

\* serializer_<field>(raw): the callable bound to the field in field_serializers
serializer(as_is, field, v) == IF field.name \in as_is THEN Ok(v) ELSE field_serializer(v)

\* the exception object of a failed access or serializer call
Raised_by(kind) ==
    IF kind = "SerializeError" THEN [Exc(kind, {}, 0) EXCEPT !.trail = InnerPath]
    ELSE Exc(kind, {}, 0)

\* _gen_access_expr: data.<attr_name>
access_expr(obj, field) ==
    IF field.name \notin DOMAIN obj.m THEN Fail("AttributeError")
    ELSE IF obj.m[field.name] = RaisingV THEN Fail("RuntimeError")
    ELSE Ok(obj.m[field.name])

(***************************************************************************)
(* Configuration of a dumper and the state of one call of it.              *)
(*   figure, debug_path    arguments of BuiltinOutputExtractionGen         *)
(*   as_is                 names of the fields whose dumper passes the     *)
(*                         value through                                   *)
(*   crown, sieves, defaults   output name layout: the crown, the fields   *)
(*                         that carry an omit-if-default sieve, and the    *)
(*                         default of each such field                      *)
(***************************************************************************)
DumpCfg(figure, debug_path, as_is, crown, sieves, defaults) ==
    [figure |-> figure, debug_path |-> debug_path, as_is |-> as_is,
     crown |-> crown, sieves |-> sieves, defaults |-> defaults]

FieldNames(figure) == {figure.fields[i].name : i \in 1..Len(figure.fields)}

\* the call of the dumper compiled for dcfg on the record obj, before its first statement
DumpCall(dcfg, obj) ==
    LET body == generate_output_extraction(dcfg.figure)
        ok == extraction_compiles(body, dcfg.debug_path)
    IN [cfg |-> dcfg, body |-> body, data |-> obj,
        pc |-> IF ok THEN 1 ELSE 0,
        fields |-> [n \in FieldNames(dcfg.figure) |-> Unbound],
        opt_fields |-> [n \in FieldNames(dcfg.figure) |-> Unbound],
        extra |-> Unbound, extra_stack |-> <<>>,
        status |-> IF ok THEN "running" ELSE "syntax_error",
        exc |-> NoExc, out |-> Unbound]

\* no dumper is being called
NoDump ==
    [DumpCall(DumpCfg(OutputFigure(<<>>, NoExtra), TRUE, {}, NoneCrown, {}, EmptyMap), NoneV)
        EXCEPT !.pc = 0, !.status = "idle"]

(***************************************************************************)
(* Resolution of a model loader: ModelLoaderProvider._provide_loader       *)
(* (src/src/adaptix/_internal/provider/model/loader_provider.py).  One     *)
(* action per step of _fetch_model_loader_gen and _provide_loader; every   *)
(* mediator.provide either answers or raises CannotProvide.                *)
(*   prov.shape, prov.name_layout   the answers to the shape and layout    *)
(*                                  requests (shape.fields: sequence of    *)
(*                                  [id, req])                             *)
(*   prov.stage      the step to take next                                 *)
(*   prov.left       fields whose loader is still to be requested          *)
(*   prov.requests   requests handed to the mediator so far                *)
(*   prov.hook       "none" | "provided" | "stub"                          *)
(*   prov.status     "idle" | "running" | "failed" | "produced"            *)
(*   prov.error      class of the exception that ended the resolution      *)
(***************************************************************************)
ShapeField(id, req) == [id |-> id, req |-> req]

NameLayout(crown, extra_move) == [crown |-> crown, extra_move |-> extra_move]

FieldIds(shape) == {shape.fields[i].id : i \in 1..Len(shape.fields)}

\* ids of the fields that are leaves of the crown
LeafIds(crown) ==
    {CrownAt(crown, p).id : p \in {q \in CrownPaths(crown, <<>>) : CrownAt(crown, q).k = "field"}}

TargetIds(extra_move) == IF extra_move.k = "targets" THEN SeqRange(extra_move.fields) ELSE {}

(* The helpers of basic_gen are imported by loader_provider.py, their      *)
(* bodies are not among the sources; they are read off their names and     *)
(* the messages of the errors raised with their results.                   *)
get_wild_extra_targets(shape, extra_move) == TargetIds(extra_move) \ FieldIds(shape)

has_collect_policy(crown) == \E p \in BranchPaths(crown) : CrownAt(crown, p).pol = "collect"

get_extra_targets_at_crown(name_layout) == TargetIds(name_layout.extra_move) \cap LeafIds(name_layout.crown)

get_optional_fields_at_list_crown(shape, crown) ==
    {shape.fields[i].id : i \in {j \in 1..Len(shape.fields) :
        /\ ~shape.fields[j].req
        /\ \E p \in BranchPaths(crown) :
              /\ CrownAt(crown, p).k = "list"
              /\ \E n \in 1..Len(CrownAt(crown, p).ch) :
                    CrownAt(crown, p).ch[n] = FieldCrown(shape.fields[j].id)}}

get_skipped_fields(shape, name_layout) ==
    FieldIds(shape) \ (LeafIds(name_layout.crown) \cup TargetIds(name_layout.extra_move))

\* a required field that is skipped makes the shape unusable
strip_input_shape_fields(shape, skipped) ==
    IF \E i \in 1..Len(shape.fields) : shape.fields[i].req /\ shape.fields[i].id \in skipped
    THEN Fail("ValueError")
    ELSE Ok([shape EXCEPT !.fields = SelectSeq(@, LAMBDA f : f.id \notin skipped)])

\* what a resolution that is over leaves behind
Resolved(p) ==
    [status |-> p.status, error |-> p.error, shape |-> p.shape, name_layout |-> p.name_layout,
     hook |-> p.hook, requests |-> p.requests]

NoModel == Cfg("", NoneCrown, EmptyMap, <<>>, ExtraMove("none", <<>>), "DISABLE", FALSE, {}, FALSE)

\* requests: the sub-requests issued so far, refused: those answered with CannotProvide;
\* model: the loader configuration the recipe holds for the request (NoModel: any);
\* first: the earlier resolution of the same request, if there was one
Resolution(shape, name_layout) ==
    [shape |-> shape, name_layout |-> name_layout, stage |-> "fetch_shape", left |-> <<>>,
     requests |-> <<>>, refused |-> <<>>, hook |-> "none", status |-> "running", error |-> "",
     model |-> NoModel,
     first |-> [status |-> "none", error |-> "", shape |-> [fields |-> <<>>],
                name_layout |-> NameLayout(NoneCrown, ExtraMove("none", <<>>)),
                hook |-> "none", requests |-> <<>>]]

\* faulty variant: the recipe answers anew at every resolution
AnswersAnew(p) == BOOLEAN

\* whether the recipe answers the next request of resolution p: open for a first
\* resolution; an unchanged recipe answers a request it saw before as it did then
Answers(p) ==
    LET k == Len(p.requests) + 1
    IN IF p.first.status = "none" \/ k > Len(p.first.requests) THEN BOOLEAN
       ELSE IF p.first.requests[k][1] = "CodeGenHookRequest" THEN {p.first.hook = "provided"}
       ELSE {~(k = Len(p.first.requests) /\ p.first.error = "CannotProvide")}

NoResolution ==
    [Resolution([fields |-> <<>>], NameLayout(NoneCrown, ExtraMove("none", <<>>)))
        EXCEPT !.stage = "", !.status = "idle"]



(***************************************************************************)
(* Providers built by the facade                                           *)
(* (src/src/adaptix/_internal/facade/provider.py).  A request is           *)
(* [kind, loc]; a predicate is the set of locations it accepts.            *)
(***************************************************************************)
\* the marker of a predicate that was not given (a predicate is a set of locations)
Omitted == {"Omitted"}

ValueProvider(request_cls, value) ==
    [cls |-> "ValueProvider", request_cls |-> request_cls, value |-> value]

ChainingProvider(chain, provider) ==
    [cls |-> "ChainingProvider", chain |-> chain, provider |-> provider]

BoundingProvider(pred, provider) ==
    [cls |-> "BoundingProvider", pred |-> pred, provider |-> provider]

bound(pred, provider) == IF pred = Omitted THEN provider ELSE BoundingProvider(pred, provider)

\* faulty variant: a chain is set up even when none is asked for
make_chain_always(chain, provider) == ChainingProvider(IF chain = "None" THEN "LAST" ELSE chain, provider)

make_chain(chain, provider) == IF chain = "None" THEN provider ELSE ChainingProvider(chain, provider)

loader(pred, func, chain) == bound(pred, make_chain(chain, ValueProvider("LoaderRequest", func)))

dumper(pred, func, chain) == bound(pred, make_chain(chain, ValueProvider("DumperRequest", func)))

(***************************************************************************)
(* The mediator.  Its implementation is not among the sources; the search  *)
(* follows the specification (4.1) and the docstrings of loader/dumper.    *)
(* A processor (loader or dumper) is the sequence of the functions it      *)
(* applies, first to last.                                                 *)
(*   med.recipe     the providers, by priority                             *)
(*   med.request    the request handed to provide                          *)
(*   med.stack      the searches under way, innermost last: request,       *)
(*                  pos (provider to try next), by (position of the        *)
(*                  provider that asked, 0: the caller), held (processor   *)
(*                  of the chaining provider at pos that waits for the     *)
(*                  rest of the recipe), left (the fields whose loaders a  *)
(*                  model provider at pos has still to ask for), id (index *)
(*                  in med.searches)                                       *)
(*   med.searches   every search started: [start, by]                      *)
(*   med.tried      every attempt that ended: [search, pos, answered]      *)
(*                  with answered "value" or "cannot"                      *)
(*   med.status     "idle" | "running" | "provided" | "failed"             *)
(*                  (CannotProvide) | "cyclic" (cyclic-resolution error)   *)
(*   med.result     the processor provided                                 *)
(***************************************************************************)
MaxRecipeLen == 3

\* the deepest nesting of searches followed (never reached with the recursion guard)
MaxDepth == 8

CannotProvide == [k |-> "cannot", v |-> <<>>, chain |-> ""]

\* Provider.attempt up to the point where the rest of the recipe is needed:
\* "cannot", a "value", or "defer" (a chaining provider holding its own processor)
RECURSIVE attempt(_, _)
attempt(provider, request) ==
    IF provider.cls = "ValueProvider"
    THEN (IF provider.request_cls = request.kind
          THEN [k |-> "value", v |-> <<provider.value>>, chain |-> ""] ELSE CannotProvide)
    ELSE IF provider.cls = "BoundingProvider"
    THEN (IF request.loc \in provider.pred THEN attempt(provider.provider, request) ELSE CannotProvide)
    ELSE LET current == attempt(provider.provider, request)
         IN IF current.k = "value" THEN [current EXCEPT !.k = "defer", !.chain = provider.chain]
            ELSE current

\* provide_from_next: one position after the provider that is executing
next_position(pos) == pos + 1

\* chaining of the provider's processor with the one of the rest of the recipe
make_chain_link(chain, current, next) == IF chain = "FIRST" THEN current \o next ELSE next \o current

Frame(request, pos, by, id) ==
    [request |-> request, pos |-> pos, by |-> by, held |-> <<>>, chain |-> "", left |-> <<>>, id |-> id]

\* a model loader provider for the model at location model, whose fields are
\* at the locations fields: it asks the mediator for the loader of every field
ModelLoaderProvider(model, fields) == [cls |-> "ModelLoaderProvider", model |-> model, fields |-> fields]

\* faulty variant: no recursion guard
recurs_never(m, request, start) == FALSE

\* the recursion guard: a search of request from position start is already under way
recurs(m, request, start) ==
    \E i \in 1..Len(m.stack) :
        m.stack[i].request = request /\ m.searches[m.stack[i].id].start = start

Search(recipe, request) ==
    [recipe |-> recipe, request |-> request,
     stack |-> <<Frame(request, 1, 0, 1)>>, searches |-> <<[start |-> 1, by |-> 0]>>,
     tried |-> <<>>, status |-> "running", result |-> <<>>]

NoSearch == [Search(<<>>, [kind |-> "", loc |-> ""]) EXCEPT !.stack = <<>>, !.searches = <<>>, !.status = "idle"]

(***************************************************************************)
(* The loader of the leaf type int.  Its provider is not among the         *)
(* sources; it is modelled from test_int_loader_provider                   *)
(* (src/tests/unit/provider/test_concrete_provider.py:258-274).            *)
(* An int is IntV(n) with n a number, a text is StrV of its characters.    *)
(***************************************************************************)
\* the largest number of characters of a text given to the loader
MaxTextLen == 3

Digits == <<"0", "1", "7">>

IsDigit(ch) == \E i \in 1..Len(Digits) : Digits[i] = ch

\* int(ch) of one digit
DigitValue(ch) == IF ch = "0" THEN 0 ELSE IF ch = "1" THEN 1 ELSE 7

\* str.strip(): the text without the blanks at both ends
RECURSIVE lstrip(_)
lstrip(chars) == IF chars # <<>> /\ Head(chars) = " " THEN lstrip(Tail(chars)) ELSE chars

RECURSIVE rstrip(_)
rstrip(chars) ==
    IF chars # <<>> /\ chars[Len(chars)] = " " THEN rstrip(SubSeq(chars, 1, Len(chars) - 1)) ELSE chars

\* the digits read from the left, acc being the value of those read so far; -1: not a digit string
RECURSIVE digits_value(_, _)
digits_value(chars, acc) ==
    IF chars = <<>> THEN acc
    ELSE IF IsDigit(Head(chars)) THEN digits_value(Tail(chars), 10 * acc + DigitValue(Head(chars)))
    ELSE -1

\* int(text): blanks around, an optional sign, at least one digit; else ValueError
py_int_of_text(chars) ==
    LET core == rstrip(lstrip(chars))
        signed == core # <<>> /\ Head(core) \in {"-", "+"}
        body == IF signed THEN Tail(core) ELSE core
        n == digits_value(body, 0)
    IN IF body = <<>> \/ n < 0 THEN Fail("ValueError")
       ELSE Ok(IntV(IF signed /\ Head(core) = "-" THEN 0 - n ELSE n))

\* int(data)
py_int(data) ==
    IF data.t = "int" THEN Ok(data)
    ELSE IF data.t = "str" THEN py_int_of_text(data.p)
    ELSE Fail("TypeError")

\* strict coercion: only an int passes
int_strict_coercion_loader(data) == IF data.t = "int" THEN Ok(data) ELSE Fail("TypeLoadError")

\* lenient: int(data), ValueError becomes a value load error, TypeError a type load error
int_loader(data) ==
    LET r == py_int(data)
    IN IF r.err = "ValueError" THEN Fail("ValueLoadError")
       ELSE IF r.err = "TypeError" THEN Fail("TypeLoadError")
       ELSE r

\* faulty variant: the lenient loader is provided whatever the flag
provide_int_loader_lenient(strict_coercion) == "int_loader"

\* the loader the retort provides for int
provide_int_loader(strict_coercion) ==
    IF strict_coercion THEN "int_strict_coercion_loader" ELSE "int_loader"

LeafCall(strict_coercion, debug_trail, input) ==
    [strict_coercion |-> strict_coercion, debug_trail |-> debug_trail, data |-> input,
     loader |-> "", status |-> "configured", value |-> Unbound, exc |-> ""]

NoLeaf == [LeafCall(FALSE, "DISABLE", Unbound) EXCEPT !.status = "idle"]

(***************************************************************************)
(* Several invocations of one compiled loader.  The routine is a closure:  *)
(* cfg and code are captured once, every invocation has its own local      *)
(* variables.  The variables of the model hold the locals of the           *)
(* invocation that is running; those of a suspended one are kept aside.    *)
(*   calls.phase      "none" | "alone" (the inputs are loaded one after    *)
(*                    the other) | "both" (two invocations take turns)     *)
(*   calls.inputs     the inputs of the two invocations                    *)
(*   calls.frames     the locals each invocation starts with               *)
(*   calls.alone      the outcomes of the invocations that ran alone       *)
(*   calls.running    which invocation is running (1 or 2)                 *)
(*   calls.suspended  the frame of the invocation that is not running      *)
(***************************************************************************)
NoFrame ==
    [pc |-> 0, data |-> EmptyMap, raw |-> EmptyMap, fld |-> EmptyMap, packed_fields |-> EmptyMap,
     extra |-> EmptyMap, has_not_found_error |-> EmptyMap, errors |-> <<>>,
     has_unexpected_error |-> FALSE, result |-> Unbound, sat_ret |-> Unbound, log |-> <<>>,
     outcome |-> [status |-> "idle", exc |-> NoExc, value |-> Unbound]]

Calls2(inputs, frames) ==
    [phase |-> "alone", inputs |-> inputs, frames |-> frames, alone |-> <<>>, running |-> 1,
     suspended |-> NoFrame]

NoCalls == [Calls2(<<>>, <<>>) EXCEPT !.phase = "none"]

(***************************************************************************)
(* State of one call of the compiled loader.                               *)
(*   cfg, code                 generator configuration and emitted body    *)
(*   pc                        index of the next statement (0: call over)  *)
(*   data                      data / data_<suffix> locals, by crown path  *)
(*   raw, fld                  r_<field> and f_<field> locals              *)
(*   packed_fields             entries of the packed_fields dict           *)
(*   extra                     extra / extra_<suffix> locals, by path      *)
(*   has_not_found_error       has_not_found_error_<suffix>, by path       *)
(*   errors, has_unexpected_error   accumulator of DebugTrail.ALL          *)
(*   result, sat_ret           constructed record; value the saturator     *)
(*                             returned                                    *)
(*   log                       calls made to the captured callables        *)
(*   outcome                   how the call ended ("syntax_error": the     *)
(*                             emitted body does not compile, no call)     *)
(*   dump                      the call of the compiled dumper (DumpCall)  *)
(*   prov                      the resolution of a model loader            *)
(*                             (Resolution)                                *)
(*   med                       the mediator's search of a recipe (Search)  *)
(*   calls                     the invocations of the loader beside the    *)
(*                             running one (Calls2)                        *)
(*   leaf                      a call of the loader of the leaf type int   *)
(*                             (LeafCall)                                  *)
(***************************************************************************)
VARIABLES cfg, code, pc, data, raw, fld, packed_fields, extra, has_not_found_error,
          errors, has_unexpected_error, result, sat_ret, log, outcome, dump, prov, med, calls, leaf

vars == <<cfg, code, pc, data, raw, fld, packed_fields, extra, has_not_found_error,
          errors, has_unexpected_error, result, sat_ret, log, outcome, dump, prov, med, calls, leaf>>

\* what a call of the loader never writes: the captured state and the other routines
program == <<cfg, code, dump, prov, med, calls, leaf>>

locals == <<data, raw, fld, packed_fields, extra, has_not_found_error, result, sat_ret>>

\* the local variables of one invocation of the loader on input
CallFrame(c, input) ==
    [pc |-> IF Compiles(c, produce_code(c)) THEN 1 ELSE 0,
     data |-> [p \in BranchPaths(c.crown) |-> IF p = <<>> THEN input ELSE Unbound],
     raw |-> [f \in DOMAIN c.fields |-> Unbound],
     fld |-> [f \in DOMAIN c.fields |-> Unbound],
     packed_fields |-> [f \in DOMAIN c.fields |-> Unbound],
     extra |-> [p \in BranchPaths(c.crown) |-> Unbound],
     has_not_found_error |-> [p \in BranchPaths(c.crown) |-> FALSE],
     errors |-> <<>>,
     has_unexpected_error |-> FALSE,
     result |-> Unbound,
     sat_ret |-> Unbound,
     log |-> <<>>,
     outcome |-> [status |-> IF Compiles(c, produce_code(c)) THEN "running" ELSE "syntax_error",
                  exc |-> NoExc, value |-> Unbound]]

\* the variables of the running invocation, as a frame
RunningFrame ==
    [pc |-> pc, data |-> data, raw |-> raw, fld |-> fld, packed_fields |-> packed_fields,
     extra |-> extra, has_not_found_error |-> has_not_found_error, errors |-> errors,
     has_unexpected_error |-> has_unexpected_error, result |-> result, sat_ret |-> sat_ret,
     log |-> log, outcome |-> outcome]

\* the running invocation has the local variables of frame
AtFrame(frame) ==
    /\ pc = frame.pc
    /\ data = frame.data
    /\ raw = frame.raw
    /\ fld = frame.fld
    /\ packed_fields = frame.packed_fields
    /\ extra = frame.extra
    /\ has_not_found_error = frame.has_not_found_error
    /\ errors = frame.errors
    /\ has_unexpected_error = frame.has_unexpected_error
    /\ result = frame.result
    /\ sat_ret = frame.sat_ret
    /\ log = frame.log
    /\ outcome = frame.outcome

Init ==
    \E run \in Runs :
        /\ cfg = run[1]
        /\ code = produce_code(run[1])
        /\ AtFrame(CallFrame(run[1], run[2]))
        /\ dump = NoDump
        /\ prov = NoResolution
        /\ med = NoSearch
        /\ calls = NoCalls
        /\ leaf = NoLeaf

Running == outcome.status = "running" /\ pc \in 1..Len(code)

At(op) == Running /\ code[pc].op = op

(***************************************************************************)
(* Control effects of a statement: the next pc, the accumulator and the    *)
(* outcome of the call.                                                    *)
(***************************************************************************)
\* index of the 'end_try' that closes the innermost try block around statement i, 0 if none
RECURSIVE FindEnd(_, _, _)
FindEnd(prog, j, depth) ==
    IF j > Len(prog) THEN 0
    ELSE IF prog[j].op = "try" THEN FindEnd(prog, j + 1, depth + 1)
    ELSE IF prog[j].op = "end_try"
         THEN (IF depth = 0 THEN j ELSE FindEnd(prog, j + 1, depth - 1))
    ELSE FindEnd(prog, j + 1, depth)

HandlerEnd == FindEnd(code, pc + 1, 0)

Go == [pc |-> pc + 1, errors |-> errors, hue |-> has_unexpected_error, outcome |-> outcome]

\* errors.append(e), optionally with has_unexpected_error = True
Record(e, unexpected) ==
    [pc |-> pc + 1, errors |-> Append(errors, e),
     hue |-> (has_unexpected_error \/ unexpected), outcome |-> outcome]

\* the call ends with exception e
Escape(e) ==
    [pc |-> 0, errors |-> errors, hue |-> has_unexpected_error,
     outcome |-> [status |-> "raised", exc |-> e, value |-> Unbound]]

\* raise e: caught by 'except TypeLoadError as e: errors.append(e)' of
\* _maybe_wrap_with_type_load_error_catching when inside such a block
Raise(e) ==
    IF HandlerEnd # 0 /\ e.kind \in TypeLoadErrorKinds
    THEN [pc |-> HandlerEnd + 1, errors |-> Append(errors, e),
          hue |-> has_unexpected_error, outcome |-> outcome]
    ELSE Escape(e)

\* Namer.emit_error
emit_error(path, e) ==
    IF cfg.trail = "ALL" THEN Record(with_trail(cfg.trail, path, e), FALSE)
    ELSE Raise(with_trail(cfg.trail, path, e))

gen_raise_bad_type_error(namer_path, e) ==
    IF namer_path = <<>> /\ cfg.trail = "ALL"
    THEN Raise(Group("AggregateLoadError", <<with_trail(cfg.trail, namer_path, e)>>))
    ELSE Raise(with_trail(cfg.trail, namer_path, e))

gen_unexpected_exc_catching(path, e) ==
    IF cfg.trail = "FIRST" THEN Raise(with_trail(cfg.trail, path, e))
    ELSE IF cfg.trail = "ALL" THEN Record(with_trail(cfg.trail, path, e), TRUE)
    ELSE Raise(e)

Apply(eff) ==
    /\ pc' = eff.pc
    /\ errors' = eff.errors
    /\ has_unexpected_error' = eff.hue
    /\ outcome' = eff.outcome

(***************************************************************************)
(* Field statements.  A field result tells how control continues (eff),    *)
(* what is assigned (mode "assign": v to the target, "default": the        *)
(* default clause, "skip": nothing), whether the field loader was called   *)
(* on arg, and whether the parent's has_not_found_error is set.            *)
(***************************************************************************)
FieldResult(eff, mode, v, loaded, arg, nfset) ==
    [eff |-> eff, mode |-> mode, v |-> v, loaded |-> loaded, arg |-> arg, nfset |-> nfset]

NoAssign(eff) == FieldResult(eff, "skip", Unbound, FALSE, Unbound, FALSE)

Event(ev, fid, arg, arg2) == [ev |-> ev, fid |-> fid, arg |-> arg, arg2 |-> arg2]

KeySet(d) == IF d.t = "map" THEN DOMAIN d.m ELSE {}

gen_field_assigment(path, fid, arg) ==
    LET res == processing_expr(cfg, fid, arg)
        called == fid \notin cfg.as_is
    IN IF res.err = ""
       THEN FieldResult(Go, "assign", res.v, called, arg, FALSE)
       ELSE FieldResult(IF cfg.trail \in {"ALL", "FIRST"}
                        THEN emit_error(path, Exc(res.err, {}, 0))
                        ELSE Raise(Exc(res.err, {}, 0)),
                        "skip", Unbound, called, arg, FALSE)

\* faulty variant: every required key is reported, not only those absent from the data
not_found_error_all_required(parent, key) ==
    IF IsIdx(key)
    THEN Exc("NoRequiredItemsError", {}, Len(CrownAt(cfg.crown, parent).ch))
    ELSE Exc("NoRequiredFieldsError",
             get_dict_crown_required_keys(cfg, CrownAt(cfg.crown, parent)), 0)

not_found_error(parent, key) ==
    IF IsIdx(key)
    THEN Exc("NoRequiredItemsError", {}, Len(CrownAt(cfg.crown, parent).ch))
    ELSE Exc("NoRequiredFieldsError",
             get_dict_crown_required_keys(cfg, CrownAt(cfg.crown, parent)) \ KeySet(data[parent]), 0)

\* body of the 'except <lookup_error>:' clause
LookupFailed(stmt) ==
    LET parent == ParentPath(stmt.path)
        key == LastEl(stmt.path)
        nfe == with_trail(cfg.trail, parent, not_found_error(parent, key))
    IN IF stmt.onle = "pass" THEN NoAssign(Go)
       ELSE IF stmt.onle = "default" THEN FieldResult(Go, "default", Unbound, FALSE, Unbound, FALSE)
       ELSE IF cfg.trail # "ALL" THEN NoAssign(Raise(nfe))
       ELSE IF IsIdx(key) THEN NoAssign(Go)
       ELSE IF ~has_not_found_error[parent]
            THEN FieldResult(Record(nfe, FALSE), "skip", Unbound, FALSE, Unbound, TRUE)
            ELSE NoAssign(Go)

\* except clauses of the try statement of _gen_assigment_from_parent_data
FetchFailed(stmt, err) ==
    LET parent == ParentPath(stmt.path)
        key == LastEl(stmt.path)
        lookup_error == IF IsIdx(key) THEN "IndexError" ELSE "KeyError"
        bad_type_error == IF IsIdx(key) THEN {"TypeError", "KeyError"} ELSE {"TypeError", "IndexError"}
        bad_type_load_error == Exc("TypeLoadError", {}, 0)
    IN IF err = lookup_error THEN LookupFailed(stmt)
       ELSE IF stmt.badtype /\ err \in bad_type_error
            THEN NoAssign(gen_raise_bad_type_error(parent, bad_type_load_error))
       ELSE NoAssign(gen_unexpected_exc_catching(stmt.path, Exc(err, {}, 0)))

default_clause(fid) == IF cfg.fields[fid].dflt = "factory" THEN MadeV(fid) ELSE cfg.fields[fid].dv

ApplyField(stmt, fr, rawv) ==
    LET parent == ParentPath(stmt.path)
        fid == stmt.fid
    IN /\ Apply(fr.eff)
       /\ raw' = IF rawv = Unbound THEN raw ELSE [raw EXCEPT ![fid] = rawv]
       /\ fld' = IF fr.mode = "default" THEN [fld EXCEPT ![fid] = default_clause(fid)]
                 ELSE IF fr.mode = "assign" /\ ~stmt.packed THEN [fld EXCEPT ![fid] = fr.v]
                 ELSE fld
       /\ packed_fields' = IF fr.mode = "assign" /\ stmt.packed
                           THEN [packed_fields EXCEPT ![fid] = fr.v]
                           ELSE packed_fields
       /\ has_not_found_error' = IF fr.nfset THEN [has_not_found_error EXCEPT ![parent] = TRUE]
                                 ELSE has_not_found_error
       /\ log' = IF fr.loaded THEN Append(log, Event("load", fid, fr.arg, Unbound))
                 ELSE IF fr.mode = "default" /\ cfg.fields[fid].dflt = "factory"
                      THEN Append(log, Event("factory", fid, Unbound, Unbound))
                 ELSE log
       /\ UNCHANGED <<program, data, extra, result, sat_ret>>

(***************************************************************************)
(* Actions: one per kind of emitted statement.                             *)
(***************************************************************************)
\* errors = [] ; has_unexpected_error = False      (produce_code)
InitErrors ==
    /\ At("init_errors")
    /\ pc' = pc + 1
    /\ errors' = <<>>
    /\ has_unexpected_error' = FALSE
    /\ UNCHANGED <<program, locals, log, outcome>>

\* packed_fields = {}                              (produce_code)
InitPacked ==
    /\ At("init_packed")
    /\ pc' = pc + 1
    /\ packed_fields' = [f \in DOMAIN cfg.fields |-> Unbound]
    /\ UNCHANGED <<program, data, raw, fld, extra, has_not_found_error, errors,
                   has_unexpected_error, result, sat_ret, log, outcome>>

\* data_<n> = <parent data>[key] of a nested branch
BranchFetch ==
    /\ At("branch_fetch")
    /\ LET stmt == code[pc]
           parent == ParentPath(stmt.path)
           r == Subscript(data[parent], LastEl(stmt.path))
       IN IF r.err = ""
          THEN /\ data' = [data EXCEPT ![stmt.path] = r.v]
               /\ Apply(Go)
               /\ UNCHANGED has_not_found_error
          ELSE LET fr == FetchFailed(stmt, r.err)
               IN /\ Apply(fr.eff)
                  /\ has_not_found_error' =
                        IF fr.nfset THEN [has_not_found_error EXCEPT ![parent] = TRUE]
                        ELSE has_not_found_error
                  /\ UNCHANGED data
    /\ UNCHANGED <<program, raw, fld, packed_fields, extra, result, sat_ret, log>>

\* extra_<n> = {}   or   extra_<n> = [<{} for a leaf, None for a branch>, ...]
InitExtra ==
    /\ At("init_extra")
    /\ LET path == code[pc].path
           crown == CrownAt(cfg.crown, path)
           list_literal == [i \in 1..Len(crown.ch) |->
                               IF IsBranch(crown.ch[i]) THEN NoneV ELSE MapV(EmptyMap)]
       IN extra' = [extra EXCEPT ![path] =
                       IF crown.k = "dict" THEN MapV(EmptyMap) ELSE SeqV(list_literal)]
    /\ pc' = pc + 1
    /\ UNCHANGED <<program, data, raw, fld, packed_fields, has_not_found_error, errors,
                   has_unexpected_error, result, sat_ret, log, outcome>>

\* has_not_found_error_<n> = False
InitNotFound ==
    /\ At("init_not_found")
    /\ has_not_found_error' = [has_not_found_error EXCEPT ![code[pc].path] = FALSE]
    /\ pc' = pc + 1
    /\ UNCHANGED <<program, data, raw, fld, packed_fields, extra, errors,
                   has_unexpected_error, result, sat_ret, log, outcome>>

\* try:      (_maybe_wrap_with_type_load_error_catching)
TryEnter ==
    /\ At("try")
    /\ pc' = pc + 1
    /\ UNCHANGED <<program, locals, errors, has_unexpected_error, log, outcome>>

\* the try block ran to its end: the except clause is skipped
TryExit ==
    /\ At("end_try")
    /\ pc' = pc + 1
    /\ UNCHANGED <<program, locals, errors, has_unexpected_error, log, outcome>>

\* if type(data) is str: raise ExcludedTypeLoadError    (_gen_forbidden_sequence_check)
StrCheck ==
    /\ At("str_check")
    /\ LET path == code[pc].path
           d == data[path]
       IN Apply(IF d.t = "unbound" THEN Raise(Exc("UnboundLocalError", {}, 0))
                ELSE IF d.t = "str"
                     THEN gen_raise_bad_type_error(path, Exc("ExcludedTypeLoadError", {}, 0))
                ELSE Go)
    /\ UNCHANGED <<program, locals, log>>

\* try: r_f = <parent data>[key] ... else: f_f = loader_f(r_f)
FieldFetch ==
    /\ At("field_fetch")
    /\ LET stmt == code[pc]
           r == Subscript(data[ParentPath(stmt.path)], LastEl(stmt.path))
       IN IF r.err = ""
          THEN ApplyField(stmt, gen_field_assigment(stmt.path, stmt.fid, r.v), r.v)
          ELSE ApplyField(stmt, FetchFailed(stmt, r.err), Unbound)

\* if key in <parent data>: f_f = loader_f(<parent data>[key]) else: <on_lookup_error>
FieldIn ==
    /\ At("field_in")
    /\ LET stmt == code[pc]
           d == data[ParentPath(stmt.path)]
           key == LastEl(stmt.path)
       IN ApplyField(stmt,
                     IF d.t = "unbound" THEN NoAssign(Raise(Exc("UnboundLocalError", {}, 0)))
                     ELSE IF d.t \in {"int", "none"} THEN NoAssign(Raise(Exc("TypeError", {}, 0)))
                     ELSE IF key \in KeySet(d) THEN gen_field_assigment(stmt.path, stmt.fid, d.m[key])
                     ELSE LookupFailed(stmt),
                     Unbound)

\* try: getter = <parent data>.get ... value = getter(key, sentinel) ...
FieldGetter ==
    /\ At("field_getter")
    /\ LET stmt == code[pc]
           parent == ParentPath(stmt.path)
           d == data[parent]
           key == LastEl(stmt.path)
       IN ApplyField(stmt,
                     IF d.t = "unbound"
                     THEN NoAssign(gen_unexpected_exc_catching(stmt.path, Exc("UnboundLocalError", {}, 0)))
                     ELSE IF d.t # "map"
                     THEN NoAssign(gen_raise_bad_type_error(parent, Exc("TypeLoadError", {}, 0)))
                     ELSE IF key \in DOMAIN d.m
                     THEN gen_field_assigment(stmt.path, stmt.fid, d.m[key])
                     ELSE LookupFailed(stmt),
                     Unbound)

\* if not isinstance(data, CollectionsMapping / CollectionsSequence): raise TypeLoadError
IsinstanceCheck ==
    /\ At("isinstance_check")
    /\ LET path == code[pc].path
           d == data[path]
           good == IF CrownAt(cfg.crown, path).k = "dict" THEN IsMapping(d) ELSE IsSequence(d)
       IN Apply(IF d.t = "unbound" THEN Raise(Exc("UnboundLocalError", {}, 0))
                ELSE IF ~good THEN gen_raise_bad_type_error(path, Exc("TypeLoadError", {}, 0))
                ELSE Go)
    /\ UNCHANGED <<program, locals, log>>

\* faulty variant: the set difference is taken the wrong way round
ForbidFieldsSwapped ==
    /\ At("forbid_fields")
    /\ LET path == code[pc].path
           d == data[path]
           extra_set == known_keys(CrownAt(cfg.crown, path)) \ KeySet(d)
       IN Apply(IF d.t = "unbound" THEN Raise(Exc("UnboundLocalError", {}, 0))
                ELSE IF d.t \in {"int", "none"} THEN Raise(Exc("TypeError", {}, 0))
                ELSE IF extra_set # {} THEN emit_error(path, Exc("ExtraFieldsError", extra_set, 0))
                ELSE Go)
    /\ UNCHANGED <<program, locals, log>>

\* extra_set = set(data) - known_keys ; if extra_set: <emit ExtraFieldsError>
ForbidFields ==
    /\ At("forbid_fields")
    /\ LET path == code[pc].path
           d == data[path]
           extra_set == KeySet(d) \ known_keys(CrownAt(cfg.crown, path))
       IN Apply(IF d.t = "unbound" THEN Raise(Exc("UnboundLocalError", {}, 0))
                ELSE IF d.t \in {"int", "none"} THEN Raise(Exc("TypeError", {}, 0))
                ELSE IF extra_set # {} THEN emit_error(path, Exc("ExtraFieldsError", extra_set, 0))
                ELSE Go)
    /\ UNCHANGED <<program, locals, log>>

\* faulty variant: every key of the data is copied, the known ones included
CollectFieldsAllKeys ==
    /\ At("collect_fields")
    /\ LET path == code[pc].path
           d == data[path]
           unknown == KeySet(d)
           old == extra[path].m
       IN IF d.t = "unbound"
          THEN Apply(Raise(Exc("UnboundLocalError", {}, 0))) /\ UNCHANGED extra
          ELSE IF d.t \in {"int", "none"}
          THEN Apply(Raise(Exc("TypeError", {}, 0))) /\ UNCHANGED extra
          ELSE IF unknown # {} /\ extra[path].t = "unbound"
          THEN Apply(Raise(Exc("UnboundLocalError", {}, 0))) /\ UNCHANGED extra
          ELSE /\ Apply(Go)
               /\ extra' = IF unknown = {} THEN extra
                           ELSE [extra EXCEPT ![path] =
                                    MapV([k \in DOMAIN old \cup unknown |->
                                             IF k \in unknown THEN d.m[k] ELSE old[k]])]
    /\ UNCHANGED <<program, data, raw, fld, packed_fields, has_not_found_error, result, sat_ret, log>>

\* for key in set(data) - known_keys: extra[key] = data[key]
CollectFields ==
    /\ At("collect_fields")
    /\ LET path == code[pc].path
           d == data[path]
           unknown == KeySet(d) \ known_keys(CrownAt(cfg.crown, path))
           old == extra[path].m
       IN IF d.t = "unbound"
          THEN Apply(Raise(Exc("UnboundLocalError", {}, 0))) /\ UNCHANGED extra
          ELSE IF d.t \in {"int", "none"}
          THEN Apply(Raise(Exc("TypeError", {}, 0))) /\ UNCHANGED extra
          ELSE IF unknown # {} /\ extra[path].t = "unbound"
          THEN Apply(Raise(Exc("UnboundLocalError", {}, 0))) /\ UNCHANGED extra
          ELSE /\ Apply(Go)
               /\ extra' = IF unknown = {} THEN extra
                           ELSE [extra EXCEPT ![path] =
                                    MapV([k \in DOMAIN old \cup unknown |->
                                             IF k \in unknown THEN d.m[k] ELSE old[k]])]
    /\ UNCHANGED <<program, data, raw, fld, packed_fields, has_not_found_error, result, sat_ret, log>>

\* if len(data) != n: NoRequiredItemsError / ExtraItemsError
LenCheck ==
    /\ At("len_check")
    /\ LET path == code[pc].path
           crown == CrownAt(cfg.crown, path)
           expected_len == Len(crown.ch)
           len == PyLen(data[path])
       IN Apply(IF len.err # "" THEN Raise(Exc(len.err, {}, 0))
                ELSE IF len.n < expected_len
                     THEN emit_error(path, Exc("NoRequiredItemsError", {}, expected_len))
                ELSE IF crown.pol = "forbid" /\ len.n # expected_len
                     THEN emit_error(path, Exc("ExtraItemsError", {}, expected_len))
                ELSE Go)
    /\ UNCHANGED <<program, locals, log>>

\* faulty variant: an empty extra value is not handed to the parent
AddExtraUnlessEmpty ==
    /\ At("add_extra")
    /\ LET path == code[pc].path
           parent == ParentPath(path)
           key == LastEl(path)
           pe == extra[parent]
       IN extra' = IF extra[path] = MapV(EmptyMap) THEN extra
                   ELSE [extra EXCEPT ![parent] =
                            IF pe.t = "seq" THEN SeqV([pe.s EXCEPT ![Idx(key) + 1] = extra[path]])
                            ELSE MapV((key :> extra[path]) @@ pe.m)]
    /\ pc' = pc + 1
    /\ UNCHANGED <<program, data, raw, fld, packed_fields, has_not_found_error, errors,
                   has_unexpected_error, result, sat_ret, log, outcome>>

\* <parent extra>[key] = extra_<n>                 (_gen_add_self_extra_to_parent_extra)
AddExtra ==
    /\ At("add_extra")
    /\ LET path == code[pc].path
           parent == ParentPath(path)
           key == LastEl(path)
           pe == extra[parent]
       IN extra' = [extra EXCEPT ![parent] =
                       IF pe.t = "seq" THEN SeqV([pe.s EXCEPT ![Idx(key) + 1] = extra[path]])
                       ELSE MapV((key :> extra[path]) @@ pe.m)]
    /\ pc' = pc + 1
    /\ UNCHANGED <<program, data, raw, fld, packed_fields, has_not_found_error, errors,
                   has_unexpected_error, result, sat_ret, log, outcome>>

\* f_target = loader_target(extra)   or   f_target = loader_target({})
TargetAssign ==
    /\ At("target_assign")
    /\ LET stmt == code[pc]
       IN ApplyField(stmt,
                     gen_field_assigment(<<>>, stmt.fid,
                                         IF stmt.arg = "extra" THEN extra[<<>>] ELSE MapV(EmptyMap)),
                     Unbound)

\* if errors: raise CompatExceptionGroup / AggregateLoadError
RaiseIfErrors ==
    /\ At("raise_if_errors")
    /\ Apply(IF errors = <<>> THEN Go
             ELSE IF has_unexpected_error THEN Raise(Group("CompatExceptionGroup", errors))
             ELSE Raise(Group("AggregateLoadError", errors)))
    /\ UNCHANGED <<program, locals, log>>

(***************************************************************************)
(* Construction (_gen_constructor_call).                                   *)
(***************************************************************************)
RecV(args, kwargs) == [t |-> "record", m |-> args, s |-> kwargs, p |-> <<>>]

\* ids of the fields passed as f_<field>: the parameters that are not packed
PassedFields == {cfg.params[i].field_id : i \in {j \in 1..Len(cfg.params) :
                    ~is_packed_field(cfg, cfg.params[j].field_id)}}

PackedPresent == {f \in DOMAIN cfg.fields : has_packed_fields(cfg) /\ packed_fields[f] # Unbound}

\* evaluation of the call expression constructor(f_a, name=f_b, **packed_fields, **extra)
constructor_call ==
    IF \E f \in PassedFields : fld[f] = Unbound THEN Fail("UnboundLocalError")
    ELSE IF cfg.extra_move.k = "kwargs" /\ extra[<<>>].t # "map" THEN Fail("TypeError")
    ELSE Ok(RecV([f \in PassedFields \cup PackedPresent |->
                     IF f \in PassedFields THEN fld[f] ELSE packed_fields[f]],
                 IF cfg.extra_move.k = "kwargs" THEN <<extra[<<>>]>> ELSE <<>>))

\* return constructor(...)
ReturnConstruct ==
    /\ At("return_construct")
    /\ LET r == constructor_call
       IN IF r.err # ""
          THEN Apply(Raise(Exc(r.err, {}, 0))) /\ UNCHANGED log
          ELSE /\ pc' = 0
               /\ outcome' = [status |-> "returned", exc |-> NoExc, value |-> r.v]
               /\ log' = Append(log, Event("constructor", "", r.v, Unbound))
               /\ UNCHANGED <<errors, has_unexpected_error>>
    /\ UNCHANGED <<program, locals>>

\* result = constructor(...)
Construct ==
    /\ At("construct")
    /\ LET r == constructor_call
       IN IF r.err # ""
          THEN Apply(Raise(Exc(r.err, {}, 0))) /\ UNCHANGED <<log, result>>
          ELSE /\ Apply(Go)
               /\ result' = r.v
               /\ log' = Append(log, Event("constructor", "", r.v, Unbound))
    /\ UNCHANGED <<program, data, raw, fld, packed_fields, extra, has_not_found_error, sat_ret>>

\* saturator(result, extra): the value the hook returns is not bound to any name
Saturate ==
    /\ At("saturate")
    /\ \E ret \in {NoneV, result} :
          sat_ret' = ret
    /\ log' = Append(log, Event("saturator", "", result, extra[<<>>]))
    /\ Apply(Go)
    /\ UNCHANGED <<program, data, raw, fld, packed_fields, extra, has_not_found_error, result>>

\* return result
ReturnResult ==
    /\ At("return_result")
    /\ pc' = 0
    /\ outcome' = [status |-> "returned", exc |-> NoExc, value |-> result]
    /\ UNCHANGED <<program, locals, errors, has_unexpected_error, log>>

Next ==
    \/ InitErrors
    \/ InitPacked
    \/ BranchFetch
    \/ InitExtra
    \/ InitNotFound
    \/ TryEnter
    \/ TryExit
    \/ StrCheck
    \/ FieldFetch
    \/ FieldIn
    \/ FieldGetter
    \/ IsinstanceCheck
    \/ ForbidFields
    \/ CollectFields
    \/ LenCheck
    \/ AddExtra
    \/ TargetAssign
    \/ RaiseIfErrors
    \/ ReturnConstruct
    \/ Construct
    \/ Saturate
    \/ ReturnResult

Spec == Init /\ [][Next]_vars

(***************************************************************************)
(* Invocations of the same compiled loader that take turns.  A switch of   *)
(* threads can come between any two statements; it changes which frame of  *)
(* locals is the running one and nothing else.                             *)
(***************************************************************************)
Resume(frame) ==
    /\ pc' = frame.pc
    /\ data' = frame.data
    /\ raw' = frame.raw
    /\ fld' = frame.fld
    /\ packed_fields' = frame.packed_fields
    /\ extra' = frame.extra
    /\ has_not_found_error' = frame.has_not_found_error
    /\ errors' = frame.errors
    /\ has_unexpected_error' = frame.has_unexpected_error
    /\ result' = frame.result
    /\ sat_ret' = frame.sat_ret
    /\ log' = frame.log
    /\ outcome' = frame.outcome

captured == <<cfg, code, dump, prov, med, leaf>>

\* the invocation that ran alone is over: the next input is loaded alone
InvokeAlone ==
    /\ calls.phase = "alone"
    /\ outcome.status # "running"
    /\ Len(calls.alone) + 1 < Len(calls.inputs)
    /\ calls' = [calls EXCEPT !.alone = Append(@, outcome)]
    /\ Resume(calls.frames[Len(calls.alone) + 2])
    /\ UNCHANGED captured

\* both inputs were loaded alone: now two invocations are started together
InvokeConcurrently ==
    /\ calls.phase = "alone"
    /\ outcome.status # "running"
    /\ Len(calls.alone) + 1 = Len(calls.inputs)
    /\ calls' = [calls EXCEPT !.alone = Append(@, outcome), !.phase = "both", !.running = 1,
                              !.suspended = calls.frames[2]]
    /\ Resume(calls.frames[1])
    /\ UNCHANGED captured

\* faulty variant: the error accumulator belongs to the closure, not to the invocation
SwitchInvocationSharingErrors ==
    /\ calls.phase = "both"
    /\ calls.suspended.outcome.status = "running"
    /\ calls' = [calls EXCEPT !.running = 3 - @, !.suspended = RunningFrame]
    /\ Resume([calls.suspended EXCEPT !.errors = errors])
    /\ UNCHANGED captured

\* the other invocation gets the processor
SwitchInvocation ==
    /\ calls.phase = "both"
    /\ calls.suspended.outcome.status = "running"
    /\ calls' = [calls EXCEPT !.running = 3 - @, !.suspended = RunningFrame]
    /\ Resume(calls.suspended)
    /\ UNCHANGED captured

\* the pairs of different inputs of one routine that are loaded together
PairsOf(cfgs, inputs) ==
    {<<c, first, second>> : c \in cfgs, first \in inputs, second \in inputs} \ 
    {<<c, v, v>> : c \in cfgs, v \in inputs}

TwoRoutings == {<<"forbid", "none">>, <<"collect", "kwargs">>, <<"collect", "saturate">>}

ConcurrentRuns ==
    PairsOf({c \in FlatCfgs : /\ c.fields["tags"].dflt = "none"
                              /\ <<c.crown.pol, c.extra_move.k>> \in TwoRoutings},
            MapValues([id |-> {OkV, BadV, RejV}, full_name |-> {Absent, OkV}, extra |-> {OkV}]))
    \cup PairsOf({c \in GetterCfgs : <<c.crown.pol, c.extra_move.k>> \in TwoRoutings},
                 MapValues([g |-> MapValues([w |-> {Absent, OkV, RejV}, extra |-> {OkV}]), x |-> {OkV}]))
    \cup PairsOf({c \in ListRootCfgs : <<c.crown.pol, c.extra_move.k>> \in TwoRoutings},
                 {SeqV(<<OkV, OkV, OkV, OkV>>), SeqV(<<BadV, OkV, OkV>>), StrV(<<"a", "b", "c">>)})
    \cup PairsOf({c \in HollowCfgs : <<c.crown.pol, c.extra_move.k>> \in TwoRoutings},
                 MapValues([d |-> {IntV("1"), MapV(EmptyMap), MapV("extra" :> OkV)}, x |-> {OkV}]))
    \cup PairsOf({c \in TargetsCfgs : c.crown.pol \in {"forbid", "collect"}},
                 MapValues([id |-> {OkV, BadV}, extra |-> {Absent, OkV}]))
    \cup PairsOf({c \in NestedCfgs : c.trail = "ALL" /\ c.crown.pol = "collect"},
                 MapValues([a |-> MapValues([x |-> {OkV, BadV}, extra |-> {OkV}]),
                            b |-> {SeqV(<<>>), MapV("w" :> OkV)},
                            c |-> {SeqV(<<OkV>>)}]))

ConcurrentInit ==
    \E run \in ConcurrentRuns :
        /\ cfg = run[1]
        /\ code = produce_code(run[1])
        /\ AtFrame(CallFrame(run[1], run[2]))
        /\ calls = Calls2(<<run[2], run[3]>>, <<CallFrame(run[1], run[2]), CallFrame(run[1], run[3])>>)
        /\ dump = NoDump
        /\ prov = NoResolution
        /\ med = NoSearch
        /\ leaf = NoLeaf

ConcurrentNext ==
    \/ Next
    \/ InvokeAlone
    \/ InvokeConcurrently
    \/ SwitchInvocation

ConcurrentSpec == ConcurrentInit /\ [][ConcurrentNext]_vars

(***************************************************************************)
(* Execution of the emitted dump body (output_extraction_gen.py), one      *)
(* action per statement.  The loader is not called meanwhile and no        *)
(* resolution goes on.                                                     *)
(***************************************************************************)
loader_state == <<cfg, code, pc, data, raw, fld, packed_fields, extra, has_not_found_error,
                  errors, has_unexpected_error, result, sat_ret, log, outcome, prov, med, calls, leaf>>

DumpAt(op) ==
    /\ dump.status = "running"
    /\ dump.pc \in 1..Len(dump.body)
    /\ dump.body[dump.pc].op = op

dump_go(d) == [d EXCEPT !.pc = @ + 1]

\* the exception leaves the dumper; pc stays at the statement that raised
dump_raise(d, e) == [d EXCEPT !.status = "raised", !.exc = e]

\* the handlers emitted around a statement under debug_path:
\*   except SerializeError as e: e.append_path(pe); raise e
\*   except Exception as e: raise SerializeError(deque([pe])) from e
path_handlers(debug_path, field, e) ==
    IF ~debug_path THEN e
    ELSE IF e.kind = "SerializeError" THEN [e EXCEPT !.trail = <<field.name>> \o @]
    ELSE [Exc("SerializeError", {}, 0) EXCEPT !.trail = <<field.name>>, !.causes = <<e>>]

\* on_access_ok_stmt: the assignment of the dumped value
on_access_ok(d, stmt, v) ==
    IF stmt.on_ok = "field" THEN [d EXCEPT !.fields[stmt.field.name] = v]
    ELSE IF stmt.on_ok = "opt_fields" THEN [d EXCEPT !.opt_fields[stmt.field.name] = v]
    ELSE IF stmt.on_ok = "extra" THEN [d EXCEPT !.extra = v]
    ELSE [d EXCEPT !.extra_stack = Append(@, v)]

\* _gen_required_field_extraction: access and dumper inside one try
RequiredFieldExtraction ==
    /\ DumpAt("required_field_extraction")
    /\ LET stmt == dump.body[dump.pc]
           got == access_expr(dump.data, stmt.field)
           r == IF got.err # "" THEN got ELSE serializer(dump.cfg.as_is, stmt.field, got.v)
       IN dump' = IF r.err # ""
                  THEN dump_raise(dump, path_handlers(dump.cfg.debug_path, stmt.field, Raised_by(r.err)))
                  ELSE dump_go(on_access_ok(dump, stmt, r.v))
    /\ UNCHANGED loader_state

\* _gen_optional_field_extraction: the access has a handler for the declared
\* access error only; the dumper is called in the else branch
OptionalFieldExtraction ==
    /\ DumpAt("optional_field_extraction")
    /\ LET stmt == dump.body[dump.pc]
           got == access_expr(dump.data, stmt.field)
           r == serializer(dump.cfg.as_is, stmt.field, got.v)
       IN dump' = IF got.err # "" /\ got.err = stmt.field.access_error
                  THEN dump_go(IF stmt.on_access_error = "extra_empty"
                               THEN [dump EXCEPT !.extra = MapV(EmptyMap)] ELSE dump)
                  ELSE IF got.err # "" THEN dump_raise(dump, Raised_by(got.err))
                  ELSE IF r.err # ""
                  THEN dump_raise(dump, path_handlers(dump.cfg.debug_path, stmt.field, Raised_by(r.err)))
                  ELSE dump_go(on_access_ok(dump, stmt, r.v))
    /\ UNCHANGED loader_state

\* extra_stack = []
ExtraStackInit ==
    /\ DumpAt("extra_stack_init")
    /\ dump' = dump_go([dump EXCEPT !.extra_stack = <<>>])
    /\ UNCHANGED loader_state

\* {**m1, **m2, ...} and the comprehension over the stack: a later mapping wins a shared key
RECURSIVE merge_mappings(_)
merge_mappings(ms) ==
    IF ms = <<>> THEN EmptyMap
    ELSE ms[Len(ms)].m @@ merge_mappings(SubSeq(ms, 1, Len(ms) - 1))

\* extra = {**f_t1, **f_t2, ...}
ExtraUnpack ==
    /\ DumpAt("extra_unpack")
    /\ LET ts == extra_targets(dump.cfg.figure)
           ms == [i \in 1..Len(ts) |-> dump.fields[ts[i]]]
       IN dump' = IF \E i \in 1..Len(ms) : ms[i].t # "map"
                  THEN dump_raise(dump, Exc("TypeError", {}, 0))
                  ELSE dump_go([dump EXCEPT !.extra = MapV(merge_mappings(ms))])
    /\ UNCHANGED loader_state

\* extra = {key: value for extra_element in extra_stack for key, value in extra_element.items()}
ExtraStackMerge ==
    /\ DumpAt("extra_stack_merge")
    /\ dump' = IF \E i \in 1..Len(dump.extra_stack) : dump.extra_stack[i].t # "map"
               THEN dump_raise(dump, Exc("AttributeError", {}, 0))
               ELSE dump_go([dump EXCEPT !.extra = MapV(merge_mappings(dump.extra_stack))])
    /\ UNCHANGED loader_state

\* extra = extractor(data): the function is supplied with the figure
ExtraExtractCall ==
    /\ DumpAt("extra_extract")
    /\ \E m \in {MapV(EmptyMap), MapV("k" :> OkV)} :
          dump' = dump_go([dump EXCEPT !.extra = m])
    /\ UNCHANGED loader_state

(***************************************************************************)
(* Output creation.  Its generator is not part of the sources at hand; the *)
(* step follows the specification: every field leaf of the crown gets its  *)
(* dumped value at the leaf's place, an optional field that was not        *)
(* extracted gets no key, and a sieve keeps a field out when the field's   *)
(* runtime value passes the omit predicate (here: equals the default).     *)
(***************************************************************************)
\* faulty variant: a configured sieve omits the field whatever its value
sieve_omits_any_value(d, name) == name \in d.cfg.sieves

sieve_omits(d, name) ==
    /\ name \in d.cfg.sieves
    /\ name \in DOMAIN d.data.m
    /\ d.data.m[name] = d.cfg.defaults[name]

is_written(d, crown) ==
    \/ crown.k # "field"
    \/ /\ name_to_field(d.cfg.figure, crown.id).is_required \/ d.opt_fields[crown.id] # Unbound
       /\ ~sieve_omits(d, crown.id)

RECURSIVE create_output(_, _)
create_output(d, crown) ==
    IF crown.k = "field"
    THEN (IF name_to_field(d.cfg.figure, crown.id).is_required
          THEN d.fields[crown.id] ELSE d.opt_fields[crown.id])
    ELSE IF crown.k = "none" THEN NoneV
    ELSE IF crown.k = "list"
    THEN SeqV([i \in 1..Len(crown.ch) |-> create_output(d, crown.ch[i])])
    ELSE MapV([key \in {crown.keys[i] : i \in {j \in 1..Len(crown.ch) : is_written(d, crown.ch[j])}} |->
                create_output(d, crown.ch[CHOOSE i \in 1..Len(crown.ch) : crown.keys[i] = key])])

OutputCreation ==
    /\ dump.status = "running"
    /\ dump.pc = Len(dump.body) + 1
    /\ dump' = [dump EXCEPT !.pc = 0, !.status = "returned", !.out = create_output(dump, dump.cfg.crown)]
    /\ UNCHANGED loader_state

(***************************************************************************)
(* Figures and records the dumper is exercised on.                         *)
(***************************************************************************)
Records(opts) == {RecV(f, <<>>) : f \in MapsOver(KeysOf(opts), opts)}

AttrValues == {Absent, RaisingV, LoadedV(OkV), LoadedV(BadV), LoadedV(RejV)}

(* A record with an optional attribute between two required ones.          *)
PlainRuns ==
    {<<DumpCfg(OutputFigure(<<OutputField("a", TRUE), OutputField("b", FALSE), OutputField("c", TRUE)>>, ex),
               debug_path, as_is,
               DictCrown(<<"a", "b", "c">>, <<FieldCrown("a"), FieldCrown("b"), FieldCrown("c")>>, "skip"),
               {}, EmptyMap), obj>> :
        ex \in {NoExtra, ExtraExtract}, debug_path \in BOOLEAN, as_is \in {{}, {"c"}},
        obj \in Records([a |-> AttrValues, b |-> AttrValues, c |-> {Absent, LoadedV(OkV)}])}

(* The specification's scenario (id, name written as "full_name", tags)    *)
(* and the Book of docs/examples/extended_usage/omit_default.py: every     *)
(* attribute is present, some fields carry an omit-if-default sieve.       *)
SieveRuns ==
    {<<DumpCfg(OutputFigure(<<OutputField("id", TRUE), OutputField("name", TRUE),
                              OutputField("tags", TRUE)>>, NoExtra),
               debug_path, {}, FlatCrown("skip"), sieves,
               [id |-> NoneV, name |-> NoneV, tags |-> dflt]), obj>> :
        debug_path \in BOOLEAN, sieves \in {{}, {"tags"}, {"name", "tags"}},
        dflt \in {SeqV(<<>>), MadeV("tags")},
        obj \in Records([id |-> {LoadedV(OkV)}, name |-> {LoadedV(OkV), NoneV},
                         tags |-> {LoadedV(OkV), SeqV(<<>>), MadeV("tags")}])}

TargetValues(n) ==
    {Absent, RaisingV, LoadedV(RejV), LoadedV(OkV), LoadedV(MapV(("k" :> IntV(n)) @@ (n :> OkV)))}

(* Unknown data taken from one or two designated fields, next to a field   *)
(* a that is not a target.                                                 *)
TargetRuns ==
    {<<DumpCfg(OutputFigure(<<OutputField("a", req[1]), OutputField("t", req[2]),
                              OutputField("u", req[3])>>, ExtraTargets(ts)),
               debug_path, {}, DictCrown(<<"a">>, <<FieldCrown("a")>>, "skip"), {}, EmptyMap), obj>> :
        req \in BOOLEAN \X BOOLEAN \X BOOLEAN, ts \in {<<"t">>, <<"t", "u">>, <<"u", "t">>},
        debug_path \in BOOLEAN,
        obj \in Records([a |-> {Absent, LoadedV(OkV)}, t |-> TargetValues("1"), u |-> TargetValues("2")])}

DumpRuns == PlainRuns \cup SieveRuns \cup TargetRuns

\* the loader is not called
NoLoadBesideLeaf ==
    /\ cfg = Cfg("", NoneCrown, EmptyMap, <<>>, ExtraMove("none", <<>>), "DISABLE", FALSE, {}, FALSE)
    /\ code = <<>>
    /\ pc = 0
    /\ data = EmptyMap
    /\ raw = EmptyMap
    /\ fld = EmptyMap
    /\ packed_fields = EmptyMap
    /\ extra = EmptyMap
    /\ has_not_found_error = EmptyMap
    /\ errors = <<>>
    /\ has_unexpected_error = FALSE
    /\ result = Unbound
    /\ sat_ret = Unbound
    /\ log = <<>>
    /\ outcome = [status |-> "idle", exc |-> NoExc, value |-> Unbound]
    /\ calls = NoCalls

NoLoad == NoLoadBesideLeaf /\ leaf = NoLeaf

DumpInit ==
    /\ \E run \in DumpRuns : dump = DumpCall(run[1], run[2])
    /\ NoLoad
    /\ prov = NoResolution
    /\ med = NoSearch

DumpNext ==
    \/ RequiredFieldExtraction
    \/ OptionalFieldExtraction
    \/ ExtraStackInit
    \/ ExtraUnpack
    \/ ExtraStackMerge
    \/ ExtraExtractCall
    \/ OutputCreation

DumpSpec == DumpInit /\ [][DumpNext]_vars

(***************************************************************************)
(* Vocabulary of the properties.                                           *)
(***************************************************************************)
Input == data[<<>>]

Finished == pc = 0 /\ outcome.status \in {"returned", "raised"}

Returned == pc = 0 /\ outcome.status = "returned"

Raised == pc = 0 /\ outcome.status = "raised"

GroupKinds == {"AggregateLoadError", "CompatExceptionGroup"}

\* the errors a failed call reports: the members of the group, or the single exception
Causes == IF outcome.exc.kind \in GroupKinds THEN outcome.exc.causes ELSE <<outcome.exc>>

\* the part of value v at crown path path, Unbound when the input has no such part
RECURSIVE SliceAt(_, _)
SliceAt(v, path) ==
    IF path = <<>> THEN v
    ELSE LET r == Subscript(v, Head(path))
         IN IF r.err = "" THEN SliceAt(r.v, Tail(path)) ELSE Unbound

RequiredKeysAt(bp) == get_dict_crown_required_keys(cfg, CrownAt(cfg.crown, bp))

UnknownKeys(crown, v) == KeySet(v) \ known_keys(crown)

Accepts(fid, v) == processing_expr(cfg, fid, v).err = ""

\* Value v matches crown: containers of the right kind, required keys present,
\* nothing unknown under Forbid, every present leaf accepted by its loader;
\* except that the branch at path devAt deviates in the way dev says:
\*   "extra"    exactly one unknown key / one item beyond the crown's length
\*   "missing"  at least one required key absent / fewer items than the crown's length
NoDeviation == <<"!">>

RECURSIVE Conforms(_, _, _, _, _)
Conforms(crown, v, here, devAt, dev) ==
    LET n == Len(crown.ch)
        extraHere == here = devAt /\ dev = "extra"
        missingHere == here = devAt /\ dev = "missing"
    IN CASE crown.k = "dict" ->
              /\ v.t = "map"
              /\ IF extraHere THEN Cardinality(UnknownKeys(crown, v)) = 1
                 ELSE crown.pol = "forbid" => UnknownKeys(crown, v) = {}
              /\ LET missing == get_dict_crown_required_keys(cfg, crown) \ KeySet(v)
                 IN IF missingHere THEN missing # {} ELSE missing = {}
              /\ \A i \in 1..n :
                    crown.keys[i] \in KeySet(v) =>
                        Conforms(crown.ch[i], v.m[crown.keys[i]], Append(here, crown.keys[i]), devAt, dev)
         [] crown.k = "list" ->
              /\ v.t = "seq"
              /\ IF extraHere THEN Len(v.s) = n + 1
                 ELSE IF missingHere THEN Len(v.s) < n
                 ELSE Len(v.s) >= n /\ (crown.pol = "forbid" => Len(v.s) = n)
              /\ \A i \in 1..n :
                    i <= Len(v.s) => Conforms(crown.ch[i], v.s[i], Append(here, IdxKey(i - 1)), devAt, dev)
         [] crown.k = "field" -> Accepts(crown.id, v)
         [] OTHER -> TRUE

ValidInput == Conforms(cfg.crown, Input, <<>>, NoDeviation, "")

AllRequired == \A f \in DOMAIN cfg.fields : cfg.fields[f].req

LogHas(ev) == \E i \in 1..Len(log) : log[i].ev = ev

ExtraDataKind(bp) == IF CrownAt(cfg.crown, bp).k = "dict" THEN "ExtraFieldsError" ELSE "ExtraItemsError"

(***************************************************************************)
(* C1 (as amended): under Forbid, an input that is valid except for one    *)
(* extra key (dict branch) or one extra trailing item (list branch) never  *)
(* yields a record; the call fails with exactly one extra-data error, the  *)
(* aggregate of DebugTrail.ALL holding it as its only cause.  Under FIRST  *)
(* and ALL the error's trail is the path of the branch with the extra      *)
(* data; under DISABLE no trail is attached.                               *)
(***************************************************************************)
C1_ForbidExtraFails ==
    \A bp \in BranchPaths(cfg.crown) :
        (/\ Finished
         /\ CrownAt(cfg.crown, bp).pol = "forbid"
         /\ Conforms(cfg.crown, Input, <<>>, bp, "extra"))
        => /\ outcome.status = "raised"
           /\ ~LogHas("constructor")
           /\ Len(Causes) = 1
           /\ Causes[1].kind = ExtraDataKind(bp)
           /\ Causes[1].trail = IF cfg.trail = "DISABLE" THEN <<>> ELSE bp
           /\ (cfg.trail = "ALL") = (outcome.exc.kind = "AggregateLoadError")

\* a nested Forbid branch received one extra key and the call failed on it
C1_Witness ==
    /\ Raised
    /\ cfg.trail = "FIRST"
    /\ AllRequired
    /\ \E bp \in BranchPaths(cfg.crown) :
          /\ bp # <<>>
          /\ CrownAt(cfg.crown, bp).pol = "forbid"
          /\ Conforms(cfg.crown, Input, <<>>, bp, "extra")
          /\ outcome.exc.kind = "ExtraFieldsError"
          /\ outcome.exc.trail = bp

\* C1 as stated: the error's path is the branch's path at every detail level
C1_Original ==
    \A bp \in BranchPaths(cfg.crown) :
        (/\ Finished
         /\ AllRequired
         /\ CrownAt(cfg.crown, bp).pol = "forbid"
         /\ Conforms(cfg.crown, Input, <<>>, bp, "extra"))
        => /\ outcome.status = "raised"
           /\ Len(Causes) = 1
           /\ Causes[1].kind = ExtraDataKind(bp)
           /\ Causes[1].trail = bp

(***************************************************************************)
(* C2 (as amended): under DISABLE and FIRST, required keys absent from a   *)
(* dict branch slice of an otherwise valid input make the call fail with   *)
(* one NoRequiredFieldsError whose field set is exactly the set of         *)
(* required keys absent from that slice; a list branch slice that is too   *)
(* short fails with NoRequiredItemsError carrying the crown's length.      *)
(* Under FIRST the error's trail is the path of the branch that holds the  *)
(* absent field, under DISABLE no trail is attached.                       *)
(***************************************************************************)
MissingKeysAt(bp) == RequiredKeysAt(bp) \ KeySet(SliceAt(Input, bp))

C2_MissingRequiredFails ==
    \A bp \in BranchPaths(cfg.crown) :
        (/\ Finished
         /\ cfg.trail \in {"DISABLE", "FIRST"}
         /\ Conforms(cfg.crown, Input, <<>>, bp, "missing"))
        => /\ outcome.status = "raised"
           /\ ~LogHas("constructor")
           /\ outcome.exc.trail = IF cfg.trail = "FIRST" THEN bp ELSE <<>>
           /\ IF CrownAt(cfg.crown, bp).k = "dict"
              THEN /\ outcome.exc.kind = "NoRequiredFieldsError"
                   /\ outcome.exc.keys = MissingKeysAt(bp)
              ELSE /\ outcome.exc.kind = "NoRequiredItemsError"
                   /\ outcome.exc.n = Len(CrownAt(cfg.crown, bp).ch)

FieldLeafPaths == {p \in CrownPaths(cfg.crown, <<>>) : CrownAt(cfg.crown, p).k = "field"}

RequiredLeafPaths == {p \in FieldLeafPaths : cfg.fields[CrownAt(cfg.crown, p).id].req}

\* two required keys are absent from a nested branch and the error names both
C2_Witness ==
    /\ Raised
    /\ cfg.trail = "FIRST"
    /\ \E bp \in BranchPaths(cfg.crown) :
          /\ bp # <<>>
          /\ Conforms(cfg.crown, Input, <<>>, bp, "missing")
          /\ outcome.exc.kind = "NoRequiredFieldsError"
          /\ outcome.exc.trail = bp
    /\ \E fp \in RequiredLeafPaths : LastEl(fp) \in outcome.exc.keys

\* C2 as stated: the failure references exactly the absent field's path
C2_Original ==
    \A fp \in RequiredLeafPaths :
        (/\ Finished
         /\ cfg.trail \in {"DISABLE", "FIRST"}
         /\ ~IsIdx(LastEl(fp))
         /\ Conforms(cfg.crown, Input, <<>>, ParentPath(fp), "missing")
         /\ LastEl(fp) \notin KeySet(SliceAt(Input, ParentPath(fp))))
        => /\ outcome.status = "raised"
           /\ outcome.exc.kind = "NoRequiredFieldsError"
           /\ {outcome.exc.trail \o <<k>> : k \in outcome.exc.keys} = {fp}

(***************************************************************************)
(* C3 (as stated): under ALL, two sibling dict branches that each miss a   *)
(* required field are both reported in the aggregate, each under its own   *)
(* branch path; when a third sibling has the wrong container type and the  *)
(* rest of the input is valid, the aggregate has exactly three causes.     *)
(***************************************************************************)
MissesRequired(bp) ==
    /\ CrownAt(cfg.crown, bp).k = "dict"
    /\ SliceAt(Input, bp).t = "map"
    /\ MissingKeysAt(bp) # {}

\* the slice of branch bp is present in the input and is not a container of the crown's kind
WrongContainer(bp) ==
    LET v == SliceAt(Input, bp)
    IN /\ v # Unbound
       /\ IF CrownAt(cfg.crown, bp).k = "dict" THEN ~IsMapping(v)
          ELSE ~IsSequence(v) \/ (cfg.strict /\ v.t = "str")

HasCause(kinds, trail) ==
    \E i \in 1..Len(Causes) : Causes[i].kind \in kinds /\ Causes[i].trail = trail

Siblings(ps) ==
    /\ \A q \in ps : q # <<>> /\ q \in BranchPaths(cfg.crown)
    /\ \A q1, q2 \in ps : ParentPath(q1) = ParentPath(q2)

C3_SiblingsAllReported ==
    \A p1, p2 \in BranchPaths(cfg.crown) :
        (/\ Finished
         /\ cfg.trail = "ALL"
         /\ p1 # p2
         /\ Siblings({p1, p2})
         /\ SliceAt(Input, ParentPath(p1)).t = "map"
         /\ MissesRequired(p1)
         /\ MissesRequired(p2))
        => /\ outcome.status = "raised"
           /\ outcome.exc.kind \in GroupKinds
           /\ HasCause({"NoRequiredFieldsError"}, p1)
           /\ HasCause({"NoRequiredFieldsError"}, p2)
           /\ \A p3 \in BranchPaths(cfg.crown) \ {p1, p2} :
                 (/\ Siblings({p1, p3})
                  /\ WrongContainer(p3)
                  /\ \A q \in BranchPaths(cfg.crown) \ {<<>>, p1, p2, p3} :
                        Conforms(CrownAt(cfg.crown, q), SliceAt(Input, q), q, NoDeviation, "")
                  /\ UnknownKeys(CrownAt(cfg.crown, p1), SliceAt(Input, p1)) = {}
                  /\ UnknownKeys(CrownAt(cfg.crown, p2), SliceAt(Input, p2)) = {})
                 => /\ Len(Causes) = 3
                    /\ HasCause(TypeLoadErrorKinds, p3)

(***************************************************************************)
(* C4 (as stated): under ALL every call of the loader either returns the   *)
(* record or raises one aggregate; no bare exception escapes.              *)
(***************************************************************************)
C4_OnlyAggregateEscapes ==
    (Finished /\ cfg.trail = "ALL")
    => \/ outcome.status = "returned"
       \/ outcome.exc.kind \in GroupKinds

(***************************************************************************)
(* C5 (as stated): under ALL an exception of a field loader that is not a  *)
(* LoadError is recorded under the leaf's path, and the group raised at    *)
(* the end is the unexpected-error group exactly when one of its causes is *)
(* not a LoadError.                                                        *)
(***************************************************************************)
C5_UnexpectedMarked ==
    (Raised /\ cfg.trail = "ALL" /\ outcome.exc.kind \in GroupKinds)
    => (outcome.exc.kind = "CompatExceptionGroup")
        = (\E i \in 1..Len(Causes) : Causes[i].kind \notin LoadErrorKinds)

(***************************************************************************)
(* C6: under FIRST a failed load stops at the first error: the constructor *)
(* is not called, nothing is accumulated, every field loader called before *)
(* the failure accepted its value, and the exception carries the path from *)
(* the root of the node where it arose: the path of the leaf whose loader  *)
(* failed (that call being the last one made), or the path of the branch   *)
(* whose slice has the wrong type, misses required data or holds extra     *)
(* data.                                                                   *)
(***************************************************************************)
LeafFailureKinds == {"ValueError", "LoadError"}

LoadsAccepted(n) == \A i \in 1..n : log[i].ev = "load" => Accepts(log[i].fid, log[i].arg)

C6_FirstAbortsWithFullPath ==
    (Raised /\ cfg.trail = "FIRST" /\ outcome.exc.kind \in LoadErrorKinds \cup LeafFailureKinds)
    => LET e == outcome.exc
           v == SliceAt(Input, e.trail)
           n == Len(log)
       IN /\ errors = <<>>
          /\ ~LogHas("constructor")
          /\ IF e.kind \in LeafFailureKinds
             THEN /\ n > 0
                  /\ LoadsAccepted(n - 1)
                  /\ log[n].ev = "load"
                  /\ processing_expr(cfg, log[n].fid, log[n].arg).err = e.kind
                  /\ e.trail \in FieldLeafPaths
                  /\ CrownAt(cfg.crown, e.trail).id = log[n].fid
                  /\ v = log[n].arg
             ELSE /\ LoadsAccepted(n)
                  /\ e.trail \in BranchPaths(cfg.crown)
                  /\ LET crown == CrownAt(cfg.crown, e.trail)
                     IN CASE e.kind \in TypeLoadErrorKinds -> WrongContainer(e.trail)
                          [] e.kind = "NoRequiredFieldsError" ->
                                crown.k = "dict" /\ e.keys # {} /\ e.keys = MissingKeysAt(e.trail)
                          [] e.kind = "NoRequiredItemsError" ->
                                crown.k = "list" /\ PyLen(v).n < Len(crown.ch) /\ e.n = Len(crown.ch)
                          [] e.kind = "ExtraFieldsError" ->
                                /\ crown.k = "dict" /\ crown.pol = "forbid"
                                /\ e.keys # {} /\ e.keys = UnknownKeys(crown, v)
                          [] e.kind = "ExtraItemsError" ->
                                /\ crown.k = "list" /\ crown.pol = "forbid"
                                /\ PyLen(v).n > Len(crown.ch)
                          [] OTHER -> FALSE

\* the loader of a leaf two levels down fails after an earlier leaf was loaded
C6_Witness ==
    /\ Raised
    /\ cfg.trail = "FIRST"
    /\ outcome.exc.kind = "ValueError"
    /\ Len(outcome.exc.trail) = 2
    /\ Len(log) = 1
    /\ \E fp \in FieldLeafPaths : SliceAt(Input, fp) # Unbound /\ fp # outcome.exc.trail

(***************************************************************************)
(* C7: in a call of the compiled loader on a valid input, an optional      *)
(* field with a declared default whose key is absent from its branch slice *)
(* receives the literal default, or the value made by one call of the      *)
(* default factory, and its loader is not called; when the key is present  *)
(* the field receives what its loader makes of the present value and the   *)
(* factory is not called.  This holds under every debug trail.             *)
(***************************************************************************)
DefaultedLeafPaths ==
    {p \in FieldLeafPaths : LET f == cfg.fields[CrownAt(cfg.crown, p).id]
                            IN ~f.req /\ f.dflt \in {"value", "factory"}}

Calls(ev, fid) == {i \in 1..Len(log) : log[i].ev = ev /\ log[i].fid = fid}

RECURSIVE ExpectedExtra(_, _)
ExpectedExtra(crown, v) ==
    IF crown.k = "dict"
    THEN LET unknown == IF crown.pol = "collect" THEN UnknownKeys(crown, v) ELSE {}
             nested == {crown.keys[i] : i \in {j \in 1..Len(crown.ch) : IsBranch(crown.ch[j])}}
             child(k) == crown.ch[CHOOSE i \in 1..Len(crown.ch) : crown.keys[i] = k]
         IN MapV([k \in unknown \cup nested |->
                    IF k \in nested THEN ExpectedExtra(child(k), v.m[k]) ELSE v.m[k]])
    ELSE SeqV([i \in 1..Len(crown.ch) |->
                 IF IsBranch(crown.ch[i]) THEN ExpectedExtra(crown.ch[i], v.s[i])
                 ELSE MapV(EmptyMap)])

CollectsToKwargs == cfg.extra_move.k = "kwargs" /\ cfg.crown.pol = "collect"

C8_CatchAllContent ==
    (Finished /\ CollectsToKwargs /\ ValidInput)
    => /\ outcome.status = "returned"
       /\ outcome.value.s = <<ExpectedExtra(cfg.crown, Input)>>

\* the scenario of the claim: the catch-all is exactly {"extra": true}
C8_Witness ==
    /\ Returned
    /\ CollectsToKwargs
    /\ cfg.name = "flat"
    /\ KeySet(Input) = {"id", "full_name", "extra"}
    /\ outcome.value.s = <<MapV("extra" :> OkV)>>

\* C8 as stated: the catch-all holds exactly the entries the crown does not claim
C8_Original ==
    (Finished /\ CollectsToKwargs /\ ValidInput)
    => /\ outcome.status = "returned"
       /\ outcome.value.s = <<MapV([k \in UnknownKeys(cfg.crown, Input) |-> Input.m[k]])>>

(***************************************************************************)
(* C9 (as amended): with ExtraSaturate a successful load calls the         *)
(* saturator exactly once, as the last call, right after the only          *)
(* constructor call, with the constructed record and the collected unknown *)
(* data; the load returns the constructed record, whatever the saturator   *)
(* returns; a failed load does not call the saturator.                     *)
(***************************************************************************)
Saturates == cfg.extra_move.k = "saturate"

C9_SaturatorCall ==
    (Finished /\ Saturates)
    => IF outcome.status = "raised" THEN ~LogHas("saturator")
       ELSE LET n == Len(log)
            IN /\ n >= 2
               /\ Calls("saturator", "") = {n}
               /\ Calls("constructor", "") = {n - 1}
               /\ log[n].arg = log[n - 1].arg
               /\ log[n].arg2 = extra[<<>>]
               /\ ValidInput => log[n].arg2 = ExpectedExtra(cfg.crown, Input)
               /\ outcome.value = log[n - 1].arg

\* the saturator receives the unknown key and returns None; the record is returned
C9_Witness ==
    /\ Returned
    /\ Saturates
    /\ cfg.crown.pol = "collect"
    /\ sat_ret = NoneV
    /\ outcome.value.t = "record"
    /\ \E i \in 1..Len(log) : log[i].ev = "saturator" /\ "extra" \in KeySet(log[i].arg2)

\* C9 as stated: the value the saturator returns is the result of the load
C9_Original == (Returned /\ Saturates) => outcome.value = sat_ret

(***************************************************************************)
(* C10 (as stated): a branch whose fetched slice is not a container of the *)
(* crown's kind (a mapping for a dict crown, a sequence for a list crown)  *)
(* fails with a TypeLoadError for that branch, and no loader of a child of *)
(* that branch is called.                                                  *)
(***************************************************************************)
ChildFields(bp) ==
    LET crown == CrownAt(cfg.crown, bp)
    IN {crown.ch[i].id : i \in {j \in 1..Len(crown.ch) : crown.ch[j].k = "field"}}

C10_TypeCheckedBeforeChildren ==
    \A bp \in BranchPaths(cfg.crown) :
        (Finished /\ data[bp] # Unbound /\ WrongContainer(bp))
        => /\ outcome.status = "raised"
           /\ HasCause(TypeLoadErrorKinds, IF cfg.trail = "DISABLE" THEN <<>> ELSE bp)
           /\ \A f \in ChildFields(bp) : Calls("load", f) = {}

(***************************************************************************)
(* C11 (as stated): under strict_coercion a list branch whose fetched      *)
(* slice is a str makes the call fail with a wrong-type load error for     *)
(* that branch, at the root and in nested branches, under every debug      *)
(* trail, and no loader of a child of the branch is called.                *)
(***************************************************************************)
C11_StrictRejectsText ==
    \A bp \in BranchPaths(cfg.crown) :
        (/\ Finished
         /\ cfg.strict
         /\ CrownAt(cfg.crown, bp).k = "list"
         /\ data[bp].t = "str")
        => /\ outcome.status = "raised"
           /\ HasCause(TypeLoadErrorKinds, IF cfg.trail = "DISABLE" THEN <<>> ELSE bp)
           /\ \A f \in ChildFields(bp) : Calls("load", f) = {}

(***************************************************************************)
(* C12 (as stated): at a list branch with the Collect policy the items     *)
(* beyond the crown's length are gathered into the branch's extra value,   *)
(* which is handed up to the consumer of unknown data.                     *)
(***************************************************************************)
Holds(container, item) ==
    \/ container = item
    \/ container.t = "map" /\ \E k \in DOMAIN container.m : container.m[k] = item
    \/ container.t = "seq" /\ \E i \in 1..Len(container.s) : container.s[i] = item

C12_ListCollectsExtraItems ==
    \A bp \in BranchPaths(cfg.crown) :
        LET crown == CrownAt(cfg.crown, bp)
            slice == SliceAt(Input, bp)
        IN (/\ Finished
            /\ ValidInput
            /\ can_collect_extra(cfg)
            /\ crown.k = "list"
            /\ crown.pol = "collect"
            /\ Len(slice.s) > Len(crown.ch))
           => /\ outcome.status = "returned"
              /\ extra[bp].t = "seq"
              /\ \A i \in (Len(crown.ch) + 1)..Len(slice.s) :
                    \E j \in 1..Len(extra[bp].s) : Holds(extra[bp].s[j], slice.s[i])

(***************************************************************************)
(* Round trip: the record a call of the loader returned is handed to the   *)
(* dumper of the same model (same fields, crown and elementary converters; *)
(* a field the loader passes only when it is present is an optional        *)
(* attribute of the record).                                               *)
(***************************************************************************)
dumper_of(c, debug_path) ==
    DumpCfg(OutputFigure([i \in 1..Len(c.params) |->
                            OutputField(c.params[i].field_id, ~is_packed_field(c, c.params[i].field_id))],
                         IF c.extra_move.k = "targets" THEN ExtraTargets(c.extra_move.fields) ELSE NoExtra),
            debug_path, c.as_is, c.crown, {}, EmptyMap)

DumpLoaded ==
    /\ pc = 0
    /\ outcome.status = "returned"
    /\ dump.status = "idle"
    /\ \E debug_path \in BOOLEAN : dump' = DumpCall(dumper_of(cfg, debug_path), outcome.value)
    /\ UNCHANGED loader_state

RoundTripNext ==
    \/ Next
    \/ DumpLoaded
    \/ RequiredFieldExtraction
    \/ OptionalFieldExtraction
    \/ OutputCreation

RoundTripSpec == Init /\ [][RoundTripNext]_vars

(***************************************************************************)
(* Steps of the resolution of a model loader.                              *)
(***************************************************************************)
beside_prov == <<cfg, code, pc, data, raw, fld, packed_fields, extra, has_not_found_error,
                 errors, has_unexpected_error, result, sat_ret, log, outcome, dump, med, calls, leaf>>

ProvAt(stage) == prov.status = "running" /\ prov.stage = stage

prov_fail(p, error) == [p EXCEPT !.status = "failed", !.error = error]

\* mediator.provide(request): the answer, or CannotProvide leaving the provider
provide(p, request, answered, stage) ==
    IF answered THEN [p EXCEPT !.requests = Append(@, request), !.stage = stage]
    ELSE prov_fail([p EXCEPT !.requests = Append(@, request), !.refused = Append(@, request)],
                   "CannotProvide")

\* shape = self._fetch_shape(mediator, request)
FetchShape ==
    /\ ProvAt("fetch_shape")
    /\ \E answered \in Answers(prov) :
          prov' = provide(prov, <<"InputShapeRequest", "">>, answered, "fetch_name_layout")
    /\ UNCHANGED beside_prov

\* name_layout = self._fetch_name_layout(mediator, request, shape)
FetchNameLayout ==
    /\ ProvAt("fetch_name_layout")
    /\ \E answered \in Answers(prov) :
          prov' = provide(prov, <<"InputNameLayoutRequest", "">>, answered, "process_shape")
    /\ UNCHANGED beside_prov

\* shape = self._process_shape(shape, name_layout)
ProcessShape ==
    /\ ProvAt("process_shape")
    /\ LET stripped == strip_input_shape_fields(prov.shape,
                                                 get_skipped_fields(prov.shape, prov.name_layout))
       IN prov' = IF get_wild_extra_targets(prov.shape, prov.name_layout.extra_move) # {}
                  THEN prov_fail(prov, "ValueError")
                  ELSE IF stripped.err # "" THEN prov_fail(prov, stripped.err)
                  ELSE [prov EXCEPT !.shape = stripped.v, !.stage = "validate_params"]
    /\ UNCHANGED beside_prov

\* faulty variant: the check for unknown-data targets among the crown's leaves is left out
ValidateParamsWithoutTargetsCheck ==
    /\ ProvAt("validate_params")
    /\ prov' = IF prov.name_layout.extra_move.k = "none" /\ has_collect_policy(prov.name_layout.crown)
               THEN prov_fail(prov, "ValueError")
               ELSE IF get_optional_fields_at_list_crown(prov.shape, prov.name_layout.crown) # {}
               THEN prov_fail(prov, "ValueError")
               ELSE [prov EXCEPT !.left = [i \in 1..Len(prov.shape.fields) |-> prov.shape.fields[i].id],
                                 !.stage = IF prov.shape.fields = <<>> THEN "strict_coercion"
                                           ELSE "field_loaders"]
    /\ UNCHANGED beside_prov

\* self._validate_params(shape, name_layout); then the loop over shape.fields begins
ValidateParams ==
    /\ ProvAt("validate_params")
    /\ prov' = IF prov.name_layout.extra_move.k = "none" /\ has_collect_policy(prov.name_layout.crown)
               THEN prov_fail(prov, "ValueError")
               ELSE IF get_extra_targets_at_crown(prov.name_layout) # {}
               THEN prov_fail(prov, "ValueError")
               ELSE IF get_optional_fields_at_list_crown(prov.shape, prov.name_layout.crown) # {}
               THEN prov_fail(prov, "ValueError")
               ELSE [prov EXCEPT !.left = [i \in 1..Len(prov.shape.fields) |-> prov.shape.fields[i].id],
                                 !.stage = IF prov.shape.fields = <<>> THEN "strict_coercion"
                                           ELSE "field_loaders"]
    /\ UNCHANGED beside_prov

\* mediator.provide(LoaderRequest(loc_map=input_field_to_loc_map(field))) for the next field
RequestFieldLoader ==
    /\ ProvAt("field_loaders")
    /\ \E answered \in Answers(prov) :
          prov' = provide([prov EXCEPT !.left = Tail(@)], <<"LoaderRequest", Head(prov.left)>>, answered,
                          IF Len(prov.left) = 1 THEN "strict_coercion" ELSE "field_loaders")
    /\ UNCHANGED beside_prov

\* strict_coercion = mediator.provide(StrictCoercionRequest(...))
RequestStrictCoercion ==
    /\ ProvAt("strict_coercion")
    /\ \E answered \in Answers(prov) :
          prov' = provide(prov, <<"StrictCoercionRequest", "">>, answered, "debug_trail")
    /\ UNCHANGED beside_prov

\* debug_trail = mediator.provide(DebugTrailRequest(...)); the generator is created and run
RequestDebugTrail ==
    /\ ProvAt("debug_trail")
    /\ \E answered \in Answers(prov) :
          prov' = provide(prov, <<"DebugTrailRequest", "">>, answered, "code_gen_hook")
    /\ UNCHANGED beside_prov

\* faulty variant: CannotProvide for the hook leaves the provider like any other
code_gen_hook_or_fail(p, answered, stage) ==
    IF answered THEN [provide(p, <<"CodeGenHookRequest", "">>, TRUE, stage) EXCEPT !.hook = "provided"]
    ELSE provide(p, <<"CodeGenHookRequest", "">>, FALSE, stage)

\* try: code_gen_hook = mediator.provide(CodeGenHookRequest())
\* except CannotProvide: code_gen_hook = stub_code_gen_hook
code_gen_hook(p, answered, stage) ==
    [p EXCEPT !.requests = Append(@, <<"CodeGenHookRequest", "">>),
              !.refused = IF answered THEN @ ELSE Append(@, <<"CodeGenHookRequest", "">>),
              !.hook = IF answered THEN "provided" ELSE "stub",
              !.stage = stage]

RequestCodeGenHook ==
    /\ ProvAt("code_gen_hook")
    /\ \E answered \in Answers(prov) :
          prov' = code_gen_hook(prov, answered, "compile")
    /\ UNCHANGED beside_prov

\* return compile_closure_with_globals_capturing(...)
CompileLoader ==
    /\ ProvAt("compile")
    /\ prov' = [prov EXCEPT !.status = "produced", !.stage = ""]
    /\ UNCHANGED beside_prov

(* Shapes and name layouts the provider is exercised on: fields x and y,   *)
(* with or without a field t; crowns with dict, list and nested branches;  *)
(* unknown data dropped, taken as keyword arguments, or routed to t or to  *)
(* a field "ghost" the shape does not have.                                *)
ProvShapes ==
    {[fields |-> <<ShapeField("x", rx), ShapeField("y", ry)>> \o extra_field] :
        rx \in BOOLEAN, ry \in BOOLEAN, extra_field \in {<<>>, <<ShapeField("t", TRUE)>>}}

ProvCrowns ==
    UNION {{DictCrown(<<"x", "y">>, <<FieldCrown("x"), FieldCrown("y")>>, pol),
            DictCrown(<<"x">>, <<FieldCrown("x")>>, pol),
            ListCrown(<<FieldCrown("x"), FieldCrown("y")>>, pol),
            DictCrown(<<"x", "n">>, <<FieldCrown("x"), DictCrown(<<"y">>, <<FieldCrown("y")>>, "collect")>>, pol),
            DictCrown(<<"x", "y", "t">>, <<FieldCrown("x"), FieldCrown("y"), FieldCrown("t")>>, pol)} :
           pol \in {"forbid", "collect"}}

ProvExtraMoves ==
    {ExtraMove("none", <<>>), ExtraMove("kwargs", <<>>), ExtraMove("targets", <<"t">>),
     ExtraMove("targets", <<"ghost">>)}

ProvInit ==
    /\ \E shape \in ProvShapes, crown \in ProvCrowns, extra_move \in ProvExtraMoves :
          prov = Resolution(shape, NameLayout(crown, extra_move))
    /\ NoLoad
    /\ dump = NoDump
    /\ med = NoSearch

ProvNext ==
    \/ FetchShape
    \/ FetchNameLayout
    \/ ProcessShape
    \/ ValidateParams
    \/ RequestFieldLoader
    \/ RequestStrictCoercion
    \/ RequestDebugTrail
    \/ RequestCodeGenHook
    \/ CompileLoader

ProvSpec == ProvInit /\ [][ProvNext]_vars

(***************************************************************************)
(* ModelSerializerProvider._provide_serializer                             *)
(* (src/dataclass_factory_30/provider/model/serializer_provider.py).  The  *)
(* figure is kept in prov.shape, the name mapping in prov.name_layout.     *)
(***************************************************************************)
\* strip_figure of basic_gen (body not among the sources): the skipped fields are left out
strip_figure(figure, skipped) ==
    [figure EXCEPT !.fields = SelectSeq(@, LAMBDA f : f.id \notin skipped)]

SerializerResolution(figure, name_mapping) ==
    [Resolution(figure, name_mapping) EXCEPT !.stage = "fetch_figure"]

\* figure = mediator.provide(OutputFigureRequest(type=request.type))
FetchFigure ==
    /\ ProvAt("fetch_figure")
    /\ \E answered \in Answers(prov) :
          prov' = provide(prov, <<"OutputFigureRequest", "">>, answered, "fetch_name_mapping")
    /\ UNCHANGED beside_prov

\* name_mapping = mediator.provide(OutputNameMappingRequest(type=request.type, figure=figure))
FetchNameMapping ==
    /\ ProvAt("fetch_name_mapping")
    /\ \E answered \in Answers(prov) :
          prov' = provide(prov, <<"OutputNameMappingRequest", "">>, answered, "process_figure")
    /\ UNCHANGED beside_prov

\* processed_figure = self._process_figure(figure, name_mapping); then make_output_extraction begins
ProcessFigure ==
    /\ ProvAt("process_figure")
    /\ LET stripped == strip_figure(prov.shape, get_skipped_fields(prov.shape, prov.name_layout))
       IN prov' = IF get_optional_fields_at_list_crown(prov.shape, prov.name_layout.crown) # {}
                  THEN prov_fail(prov, "ValueError")
                  ELSE [prov EXCEPT !.shape = stripped,
                                    !.left = [i \in 1..Len(stripped.fields) |-> stripped.fields[i].id],
                                    !.stage = IF stripped.fields = <<>> THEN "serializer_code_gen_hook"
                                              ELSE "field_serializers"]
    /\ UNCHANGED beside_prov

\* mediator.provide(SerializerFieldRequest(...)) for the next field of the figure
RequestFieldSerializer ==
    /\ ProvAt("field_serializers")
    /\ \E answered \in Answers(prov) :
          prov' = provide([prov EXCEPT !.left = Tail(@)], <<"SerializerFieldRequest", Head(prov.left)>>,
                          answered,
                          IF Len(prov.left) = 1 THEN "serializer_code_gen_hook" ELSE "field_serializers")
    /\ UNCHANGED beside_prov

\* try: code_gen_hook = mediator.provide(CodeGenHookRequest())
\* except CannotProvide: code_gen_hook = stub_code_gen_hook
RequestSerializerCodeGenHook ==
    /\ ProvAt("serializer_code_gen_hook")
    /\ \E answered \in Answers(prov) :
          prov' = code_gen_hook(prov, answered, "compile_serializer")
    /\ UNCHANGED beside_prov

\* return compile_closure_with_globals_capturing(...)
CompileSerializer ==
    /\ ProvAt("compile_serializer")
    /\ prov' = [prov EXCEPT !.status = "produced", !.stage = ""]
    /\ UNCHANGED beside_prov

\* a model loader or a model dumper is resolved
BothProvInit ==
    /\ \E shape \in ProvShapes, crown \in ProvCrowns, extra_move \in ProvExtraMoves :
          \/ prov = Resolution(shape, NameLayout(crown, extra_move))
          \/ prov = SerializerResolution(shape, NameLayout(crown, extra_move))
    /\ NoLoad
    /\ dump = NoDump
    /\ med = NoSearch

BothProvNext ==
    \/ ProvNext
    \/ FetchFigure
    \/ FetchNameMapping
    \/ ProcessFigure
    \/ RequestFieldSerializer
    \/ RequestSerializerCodeGenHook
    \/ CompileSerializer

BothProvSpec == BothProvInit /\ [][BothProvNext]_vars

(***************************************************************************)
(* Steps of the mediator's search.                                         *)
(***************************************************************************)
beside_med == <<cfg, code, pc, data, raw, fld, packed_fields, extra, has_not_found_error,
                errors, has_unexpected_error, result, sat_ret, log, outcome, dump, prov, calls, leaf>>

Top == med.stack[Len(med.stack)]

Scanning ==
    /\ med.status = "running"
    /\ med.stack # <<>>
    /\ Top.held = <<>>

\* faulty variant: the scan passes over the provider that follows
move_on_skipping(frame) == [frame EXCEPT !.held = <<>>, !.chain = "", !.left = <<>>, !.pos = @ + 2]

\* the provider of the frame signalled CannotProvide: the scan goes to the next one
move_on(frame) == [frame EXCEPT !.held = <<>>, !.chain = "", !.left = <<>>, !.pos = @ + 1]

\* the innermost search ends with processor v: its caller goes on
deliver(m, v) ==
    IF Len(m.stack) = 1
    THEN [m EXCEPT !.stack = <<>>, !.status = "provided", !.result = v]
    ELSE LET caller == m.stack[Len(m.stack) - 1]
         IN [m EXCEPT !.stack = Append(SubSeq(@, 1, Len(@) - 2),
                                       IF caller.left # <<>>
                                       THEN [caller EXCEPT !.held = @ \o v, !.left = Tail(@)]
                                       ELSE [caller EXCEPT !.held = make_chain_link(caller.chain, caller.held, v)])]

\* the provider at the search position attempts the request
AttemptProvider ==
    /\ Scanning
    /\ Top.pos <= Len(med.recipe)
    /\ Len(med.stack) < MaxDepth
    /\ med.recipe[Top.pos].cls # "ModelLoaderProvider"
    /\ LET n == Len(med.stack)
           a == attempt(med.recipe[Top.pos], Top.request)
       IN med' = IF a.k = "cannot"
                 THEN [med EXCEPT !.stack[n] = move_on(@),
                                    !.tried = Append(@, [search |-> Top.id, pos |-> Top.pos,
                                                       answered |-> "cannot"])]
                 ELSE IF a.k = "value" THEN [med EXCEPT !.stack[n].held = a.v]
                 ELSE [med EXCEPT !.stack = Append([@ EXCEPT ![n].held = a.v, ![n].chain = a.chain],
                                                   Frame(Top.request, next_position(Top.pos), Top.pos,
                                                         Len(med.searches) + 1)),
                                  !.searches = Append(@, [start |-> next_position(Top.pos), by |-> Top.pos])]
    /\ UNCHANGED beside_med

\* the provider at the search position has its processor: the search returns it
ReturnProvided ==
    /\ med.status = "running"
    /\ med.stack # <<>>
    /\ Top.held # <<>>
    /\ Top.left = <<>>
    /\ med' = deliver([med EXCEPT !.tried = Append(@, [search |-> Top.id, pos |-> Top.pos,
                                                        answered |-> "value"])],
                       Top.held)
    /\ UNCHANGED beside_med

\* no provider is left: the search fails with CannotProvide; a chaining provider
\* that asked for it cannot provide either, and its search moves on
RaiseCannotProvide ==
    /\ Scanning
    /\ Top.pos > Len(med.recipe)
    /\ med' = IF Len(med.stack) = 1
              THEN [med EXCEPT !.stack = <<>>, !.status = "failed"]
              ELSE LET caller == med.stack[Len(med.stack) - 1]
                   IN [med EXCEPT !.stack = Append(SubSeq(@, 1, Len(@) - 2),
                                                   move_on(caller)),
                                  !.tried = Append(@, [search |-> caller.id, pos |-> caller.pos,
                                                       answered |-> "cannot"])]
    /\ UNCHANGED beside_med

\* providers of the recipes: customised loaders and dumpers, and the built-in ones
Locs == {"int", "str"}

Requests == [kind : {"LoaderRequest", "DumperRequest"}, loc : Locs]

Chains == {"None", "FIRST", "LAST"}

CustomProviders ==
    {loader(pred, "f", chain) : pred \in {Omitted, {"int"}}, chain \in Chains}
    \cup {loader(Omitted, "g", chain) : chain \in {"FIRST", "LAST"}}
    \cup {dumper(Omitted, "d", chain) : chain \in Chains}

BuiltinProviders ==
    {ValueProvider("LoaderRequest", "builtin_loader"),
     BoundingProvider({"str"}, ValueProvider("LoaderRequest", "str_loader")),
     ValueProvider("DumperRequest", "builtin_dumper")}

Recipes ==
    UNION {[1..n -> CustomProviders \cup BuiltinProviders] : n \in 1..MaxRecipeLen}

MedInit ==
    /\ \E recipe \in Recipes, request \in Requests : med = Search(recipe, request)
    /\ NoLoad
    /\ dump = NoDump
    /\ prov = NoResolution

MedNext ==
    \/ AttemptProvider
    \/ ReturnProvided
    \/ RaiseCannotProvide

MedSpec == MedInit /\ [][MedNext]_vars

(***************************************************************************)
(* Resolution with sub-requests: a model loader provider asks the mediator *)
(* for the loader of each field; every such request is a search of the     *)
(* whole recipe, watched by the recursion guard.                           *)
(***************************************************************************)
\* a model loader provider attempts the request: it answers for its own model only
AttemptModelProvider ==
    /\ Scanning
    /\ Top.pos <= Len(med.recipe)
    /\ med.recipe[Top.pos].cls = "ModelLoaderProvider"
    /\ LET n == Len(med.stack)
           provider == med.recipe[Top.pos]
       IN med' = IF Top.request.kind = "LoaderRequest" /\ Top.request.loc = provider.model
                 THEN [med EXCEPT !.stack[n].held = <<provider.model>>, !.stack[n].left = provider.fields]
                 ELSE [med EXCEPT !.stack[n] = move_on(@),
                                  !.tried = Append(@, [search |-> Top.id, pos |-> Top.pos,
                                                       answered |-> "cannot"])]
    /\ UNCHANGED beside_med

AskingFieldLoader ==
    /\ med.status = "running"
    /\ med.stack # <<>>
    /\ Top.left # <<>>

FieldLoaderRequest == [kind |-> "LoaderRequest", loc |-> Head(Top.left)]

\* mediator.provide(LoaderRequest(field)): a search of the recipe from its start
ProvideFieldLoader ==
    /\ AskingFieldLoader
    /\ ~recurs(med, FieldLoaderRequest, 1)
    /\ Len(med.stack) < MaxDepth
    /\ med' = [med EXCEPT !.stack = Append(@, Frame(FieldLoaderRequest, 1, 0, Len(med.searches) + 1)),
                          !.searches = Append(@, [start |-> 1, by |-> 0])]
    /\ UNCHANGED beside_med

\* the same request at the same search position is already being resolved:
\* the resolution fails with the cyclic-resolution error
RaiseCyclicResolution ==
    /\ AskingFieldLoader
    /\ recurs(med, FieldLoaderRequest, 1)
    /\ med' = [med EXCEPT !.stack = <<>>, !.status = "cyclic"]
    /\ UNCHANGED beside_med

ModelLocs == {"A", "B"}

ModelProviders ==
    {ModelLoaderProvider(model, fields) :
        model \in ModelLocs, fields \in {<<>>, <<"int">>, <<"A">>, <<"int", "B">>, <<"str", "int">>}}

LeafProviders ==
    {BoundingProvider({"int"}, ValueProvider("LoaderRequest", "int_loader")),
     loader({"A", "int"}, "f", "FIRST"),
     loader({"int"}, "g", "None")}

ResolveRecipes ==
    UNION {[1..n -> ModelProviders \cup LeafProviders] : n \in 1..MaxRecipeLen}

ResolveInit ==
    /\ \E recipe \in ResolveRecipes, loc \in ModelLocs \cup {"int"} :
          med = Search(recipe, [kind |-> "LoaderRequest", loc |-> loc])
    /\ NoLoad
    /\ dump = NoDump
    /\ prov = NoResolution

ResolveNext ==
    \/ MedNext
    \/ AttemptModelProvider
    \/ ProvideFieldLoader
    \/ RaiseCyclicResolution

\* a resolution is one synchronous call: it goes on while a step is possible
ResolveSpec == ResolveInit /\ [][ResolveNext]_vars /\ WF_vars(ResolveNext)

(***************************************************************************)
(* The same loader request resolved twice against one recipe, and the two  *)
(* routines called on the same input.                                      *)
(***************************************************************************)
\* the shape the recipe provides for the model of configuration c
shape_of(c) ==
    [fields |-> [i \in 1..Len(c.params) |->
                    ShapeField(c.params[i].field_id, c.fields[c.params[i].field_id].req)]]

ResolutionOf(c) ==
    [Resolution(shape_of(c), NameLayout(c.crown, c.extra_move)) EXCEPT !.model = c]

\* the generator's parameters after a resolution: layout as fetched, the rest as the recipe has it
cfg_of(model, resolved) ==
    [model EXCEPT !.crown = resolved.name_layout.crown, !.extra_move = resolved.name_layout.extra_move]

\* the request is resolved a second time
ResolveAgain ==
    /\ prov.status \in {"produced", "failed"}
    /\ prov.model # NoModel
    /\ prov.first.status = "none"
    /\ prov' = [ResolutionOf(prov.model) EXCEPT !.first = Resolved(prov)]
    /\ UNCHANGED beside_prov

\* both resolutions produced a routine: the first routine is called
CallFirstRoutine ==
    /\ prov.status = "produced"
    /\ prov.first.status = "produced"
    /\ outcome.status = "idle"
    /\ cfg' = cfg_of(prov.model, prov.first)
    /\ code' = produce_code(cfg_of(prov.model, prov.first))
    /\ Resume(CallFrame(cfg_of(prov.model, prov.first), calls.inputs[1]))
    /\ UNCHANGED <<dump, prov, med, calls, leaf>>

\* the first routine is over: the second routine is called on the same input
CallSecondRoutine ==
    /\ prov.status = "produced"
    /\ prov.first.status = "produced"
    /\ outcome.status \notin {"idle", "running"}
    /\ calls.alone = <<>>
    /\ calls' = [calls EXCEPT !.alone = <<outcome>>]
    /\ cfg' = cfg_of(prov.model, Resolved(prov))
    /\ code' = produce_code(cfg_of(prov.model, Resolved(prov)))
    /\ Resume(CallFrame(cfg_of(prov.model, Resolved(prov)), calls.inputs[2]))
    /\ UNCHANGED <<dump, prov, med, leaf>>

TwiceInit ==
    /\ \E run \in ConcurrentRuns :
          /\ prov = ResolutionOf(run[1])
          /\ calls = [Calls2(<<run[2], run[2]>>, <<>>) EXCEPT !.phase = "twice"]
    /\ cfg = NoModel
    /\ code = <<>>
    /\ AtFrame(NoFrame)
    /\ dump = NoDump
    /\ med = NoSearch
    /\ leaf = NoLeaf

TwiceNext ==
    \/ ProvNext
    \/ ResolveAgain
    \/ CallFirstRoutine
    \/ CallSecondRoutine
    \/ Next

TwiceSpec == TwiceInit /\ [][TwiceNext]_vars

(***************************************************************************)
(* The int loader got from a retort and called                             *)
(* (test_int_loader_provider).                                             *)
(***************************************************************************)
beside_leaf == <<cfg, code, pc, data, raw, fld, packed_fields, extra, has_not_found_error,
                 errors, has_unexpected_error, result, sat_ret, log, outcome, dump, prov, med, calls>>

\* loader = retort.get_loader(int)
GetIntLoader ==
    /\ leaf.status = "configured"
    /\ leaf' = [leaf EXCEPT !.loader = provide_int_loader(leaf.strict_coercion), !.status = "ready"]
    /\ UNCHANGED beside_leaf

\* loader(data)
CallIntLoader ==
    /\ leaf.status = "ready"
    /\ LET r == IF leaf.loader = "int_strict_coercion_loader"
                THEN int_strict_coercion_loader(leaf.data) ELSE int_loader(leaf.data)
       IN leaf' = IF r.err = "" THEN [leaf EXCEPT !.status = "returned", !.value = r.v]
                  ELSE [leaf EXCEPT !.status = "raised", !.exc = r.err]
    /\ UNCHANGED beside_leaf

TextChars == {"0", "1", "7", "-", " ", "f"}

Texts == UNION {[1..n -> TextChars] : n \in 0..MaxTextLen}

LeafInputs == {IntV(n) : n \in {-7, 0, 100}} \cup {NoneV} \cup {StrV(chars) : chars \in Texts}

LeafInit ==
    /\ \E strict_coercion \in BOOLEAN, debug_trail \in DebugTrails, input \in LeafInputs :
          leaf = LeafCall(strict_coercion, debug_trail, input)
    /\ NoLoadBesideLeaf
    /\ dump = NoDump
    /\ prov = NoResolution
    /\ med = NoSearch

LeafNext ==
    \/ GetIntLoader
    \/ CallIntLoader

LeafSpec == LeafInit /\ [][LeafNext]_vars

(***************************************************************************)
(* Vocabulary of the properties of the dump direction.                     *)
(***************************************************************************)
DumpEnded == dump.status \in {"returned", "raised", "syntax_error"}

\* the fields of the figure that generate_output_extraction extracts as fields
PlainFields ==
    {f \in SeqRange(dump.cfg.figure.fields) : f.name \notin SeqRange(extra_targets(dump.cfg.figure))}

\* the accessor of the optional field raises its declared access error
AbsentOptional(f) == (~f.is_required) /\ access_expr(dump.data, f).err = f.access_error

\* the accessor and the dumper of the field both succeed
DumpsCleanly(f) ==
    /\ access_expr(dump.data, f).err = ""
    /\ serializer(dump.cfg.as_is, f, access_expr(dump.data, f).v).err = ""

DumpedValue(f) == serializer(dump.cfg.as_is, f, access_expr(dump.data, f).v).v

\* C16: a dump of a record whose optional fields are absent or dump cleanly, and
\* whose other fields dump cleanly, returns; an absent optional field gets no
\* entry (and no null) among the extracted values, every other field holds the
\* value its elementary dumper returned.
C16_AbsentOptionalOmitted ==
    (/\ DumpEnded
     /\ dump.cfg.figure.extra.k # "targets"
     /\ \E f \in PlainFields : AbsentOptional(f)
     /\ \A f \in PlainFields : AbsentOptional(f) \/ DumpsCleanly(f))
    => /\ dump.status = "returned"
       /\ \A f \in PlainFields :
            IF AbsentOptional(f) THEN dump.opt_fields[f.name] = Unbound
            ELSE IF f.is_required THEN dump.fields[f.name] = DumpedValue(f)
            ELSE dump.opt_fields[f.name] = DumpedValue(f)

\* the designated unknown-data sources of the figure, in their listed order
Sources == [i \in 1..Len(extra_targets(dump.cfg.figure)) |->
                name_to_field(dump.cfg.figure, extra_targets(dump.cfg.figure)[i])]

\* the source is present and its dumper returns a mapping
DumpsMapping(f) == DumpsCleanly(f) /\ DumpedValue(f).t = "map"

\* key union of the mappings ms, the last mapping that has a key giving its value
UnionInOrder(ms) ==
    [key \in UNION {DOMAIN ms[i].m : i \in 1..Len(ms)} |->
        ms[CHOOSE i \in 1..Len(ms) :
              key \in DOMAIN ms[i].m /\ \A j \in (i + 1)..Len(ms) : key \notin DOMAIN ms[j].m].m[key]]

PresentSources ==
    LET present(f) == DumpsMapping(f)
        dumped == [i \in 1..Len(Sources) |-> IF present(Sources[i]) THEN DumpedValue(Sources[i]) ELSE Unbound]
    IN SelectSeq(dumped, LAMBDA v : v # Unbound)

\* C17: when the sources of the unknown-data slot are present (or optional and
\* absent) and everything dumps cleanly, the dump returns and the slot holds the
\* key union, in listed order, of the dumped values of the present sources,
\* whichever path the generator took; with one source the slot is its dumped
\* value, the empty mapping when it is absent.
C17_ExtraTargetsMerged ==
    (/\ DumpEnded
     /\ Len(Sources) >= 1
     /\ \A f \in PlainFields : AbsentOptional(f) \/ DumpsCleanly(f)
     /\ \A i \in 1..Len(Sources) : AbsentOptional(Sources[i]) \/ DumpsMapping(Sources[i]))
    => /\ dump.status = "returned"
       /\ dump.extra = MapV(UnionInOrder(PresentSources))
       /\ (Len(Sources) = 1 /\ DumpsMapping(Sources[1])) => dump.extra = DumpedValue(Sources[1])
       /\ (Len(Sources) = 1 /\ AbsentOptional(Sources[1])) => dump.extra = MapV(EmptyMap)

\* the dump was ended by the statement that extracts a field
FailedAtField ==
    /\ dump.status = "raised"
    /\ dump.body[dump.pc].op \in {"required_field_extraction", "optional_field_extraction"}

\* C18: under debug_path, a dump that ends in the extraction of a field, be it
\* by the field's accessor or by its dumper, raises a SerializeError whose path
\* starts with the path element of that field, for required and optional fields.
C18_DumpFailurePathTagged ==
    (FailedAtField /\ dump.cfg.debug_path)
    => /\ dump.exc.kind = "SerializeError"
       /\ dump.exc.trail # <<>>
       /\ Head(dump.exc.trail) = dump.body[dump.pc].field.name

\* the field leaves of a dict crown as pairs <<key, field>>
LeafKeys ==
    {<<dump.cfg.crown.keys[i], name_to_field(dump.cfg.figure, dump.cfg.crown.ch[i].id)>> :
        i \in {j \in 1..Len(dump.cfg.crown.ch) : dump.cfg.crown.ch[j].k = "field"}}

\* C15: in the mapping a dump returns, the key of a field with an
\* omit-if-default sieve is missing exactly when the record's value of the field
\* equals the field's default; every other field of the crown has its key, and
\* every key that is there holds the value the field's dumper returned.
C15_SieveOmitsDefault ==
    (dump.status = "returned" /\ dump.cfg.sieves # {})
    => \A kf \in LeafKeys :
          /\ IF kf[2].name \in dump.cfg.sieves
             THEN (kf[1] \notin DOMAIN dump.out.m) <=> (dump.data.m[kf[2].name] = dump.cfg.defaults[kf[2].name])
             ELSE kf[1] \in DOMAIN dump.out.m
          /\ kf[1] \in DOMAIN dump.out.m => dump.out.m[kf[1]] = DumpedValue(kf[2])

\* the scenario: id and name set, tags equal to its default, sieve on tags:
\* the dump is {"id": ..., "full_name": ...}
C15_Witness ==
    /\ dump.status = "returned"
    /\ dump.cfg.sieves = {"tags"}
    /\ dump.data.m["tags"] = dump.cfg.defaults["tags"]
    /\ dump.out = MapV([key \in {"id", "full_name"} |-> OkV])

\* the load did not return a record, or the dump of the record is over
RoundTripEnded == outcome.status \in {"raised", "syntax_error"} \/ DumpEnded

\* C13: for an input that matches the crown, the load returns a record, the
\* dump of that record returns, and at the place of every field leaf of the
\* crown for which the input has a value the dumped value equals the input's.
C13_RoundTrip ==
    (ValidInput /\ RoundTripEnded)
    => /\ outcome.status = "returned"
       /\ dump.status = "returned"
       /\ \A p \in FieldLeafPaths :
            SliceAt(Input, p) # Unbound => SliceAt(dump.out, p) = SliceAt(Input, p)

(***************************************************************************)
(* Properties of the resolution of a model loader.                         *)
(***************************************************************************)
\* the shape and the name layout have one of the four configuration errors
ConfigurationError ==
    \/ get_wild_extra_targets(prov.shape, prov.name_layout.extra_move) # {}
    \/ get_extra_targets_at_crown(prov.name_layout) # {}
    \/ prov.name_layout.extra_move.k = "none" /\ has_collect_policy(prov.name_layout.crown)
    \/ get_optional_fields_at_list_crown(prov.shape, prov.name_layout.crown) # {}

Requested(kind) == \E i \in 1..Len(prov.requests) : prov.requests[i][1] = kind

\* the shape and the name layout were both provided
LayoutFetched == Requested("InputNameLayoutRequest") /\ prov.stage # "fetch_name_layout"

\* C14: a shape and name layout with unknown-data targets missing from the shape,
\* with targets that are field leaves of the crown, with a Collect policy and no
\* consumer of unknown data, or with an optional field in a list crown never gets
\* a per-field loader requested and never yields a routine; once shape and
\* layout are provided the resolution ends with ValueError.  A resolution that
\* produced a routine has none of the four.
C14_ConfigurationErrorsFatal ==
    /\ ConfigurationError =>
          /\ ~Requested("LoaderRequest")
          /\ prov.status # "produced"
          /\ (LayoutFetched /\ prov.status = "failed") => prov.error = "ValueError"
          /\ LayoutFetched => prov.stage \in {"process_shape", "validate_params"}
    /\ prov.status = "produced" => ~ConfigurationError

\* a layout that routes unknown data to a field that is also a leaf of the crown
\* is refused after the shape and layout requests, before any other request
C14_Witness ==
    /\ prov.status = "failed"
    /\ prov.error = "ValueError"
    /\ prov.stage = "validate_params"
    /\ get_extra_targets_at_crown(prov.name_layout) # {}
    /\ Len(prov.requests) = 2

(***************************************************************************)
(* Vocabulary of the properties of the mediator.                           *)
(***************************************************************************)
MedEnded == med.status \in {"provided", "failed"}

\* the attempts of search s that ended, in the order they were made
TriedOf(s) == SelectSeq(med.tried, LAMBDA t : t.search = s)

\* what provide(request) scanning recipe from position start is to return:
\* [pos, v] of the lowest-position provider whose attempt succeeds, pos = 0 if none
RECURSIVE first_match(_, _, _)
first_match(recipe, start, request) ==
    IF start > Len(recipe) THEN [pos |-> 0, v |-> <<>>]
    ELSE LET a == attempt(recipe[start], request)
             rest == first_match(recipe, start + 1, request)
         IN IF a.k = "value" THEN [pos |-> start, v |-> a.v]
            ELSE IF a.k = "defer" /\ rest.pos # 0
            THEN [pos |-> start, v |-> make_chain_link(a.chain, a.v, rest.v)]
            ELSE rest

\* C19: provide(request) returns the result of the lowest-position provider of
\* the recipe whose attempt succeeds: the providers before it, and only they,
\* were consulted before and signalled CannotProvide, none after it is
\* consulted; provide fails with CannotProvide exactly when every provider of
\* the recipe signals CannotProvide.
C19_FirstMatchWins ==
    LET tried == TriedOf(1)
        want == first_match(med.recipe, 1, med.request)
    IN /\ \A i \in 1..Len(tried) :
             /\ tried[i].pos = i
             /\ tried[i].answered = "value" => i = Len(tried) /\ med.status = "provided"
       /\ med.status = "provided" =>
             /\ tried # <<>>
             /\ tried[Len(tried)].answered = "value"
             /\ Len(tried) = want.pos
             /\ med.result = want.v
       /\ med.status = "failed" =>
             /\ Len(tried) = Len(med.recipe)
             /\ \A i \in 1..Len(tried) : tried[i].answered = "cannot"
       /\ MedEnded => (med.status = "failed" <=> want.pos = 0)

\* a search that was won by the last provider of a three-provider recipe
C19_Witness ==
    /\ med.status = "provided"
    /\ Len(med.recipe) = 3
    /\ Len(TriedOf(1)) = 3

\* the provider that won the search of provide, and what the rest of the recipe provides
Winner == Len(TriedOf(1))

Previous == first_match(med.recipe, Winner + 1, med.request)

CustomOf(pred, func, chain) == {loader(pred, func, chain), dumper(pred, func, chain)}

\* C20: a custom loader or dumper made with chain None replaces what the rest
\* of the recipe would produce; with FIRST the custom function is applied to the
\* raw data and its result goes to the previous processor; with LAST the custom
\* function gets the result of the previous processor.  The previous processor
\* is searched from the position right after the chaining provider, never from
\* the chaining provider itself or an earlier position.
C20_ChainOrder ==
    /\ \A i \in 1..Len(med.searches) :
          med.searches[i].by # 0 => /\ med.searches[i].start > med.searches[i].by
                                    /\ med.searches[i].start = med.searches[i].by + 1
    /\ med.status = "provided" =>
          \A pred \in {Omitted, {"int"}}, func \in {"f", "g", "d"}, chain \in Chains :
              med.recipe[Winner] \in CustomOf(pred, func, chain) =>
                  med.result = CASE chain = "None"  -> <<func>>
                                 [] chain = "FIRST" -> <<func>> \o Previous.v
                                 [] chain = "LAST"  -> Previous.v \o <<func>>

\* f chained FIRST before g chained LAST before the built-in loader
C20_Witness ==
    /\ med.status = "provided"
    /\ med.recipe[1] = loader(Omitted, "f", "FIRST")
    /\ med.result = <<"f", "builtin_loader", "g">>
    /\ Len(med.searches) = 3

(***************************************************************************)
(* Vocabulary of the properties of a resolution with sub-requests.         *)
(***************************************************************************)
ResolutionEnded == med.status \in {"provided", "failed", "cyclic"}

StartOf(frame) == med.searches[frame.id].start

\* no (request, search position) pair is under way twice
NoPairRecurs ==
    \A i, j \in 1..Len(med.stack) :
        i < j => ~(med.stack[i].request = med.stack[j].request
                   /\ StartOf(med.stack[i]) = StartOf(med.stack[j]))

\* C21: every resolution terminates: no (request, search position) pair is ever
\* under way twice, the nesting of searches stays below the depth the model
\* follows, a request that would recur ends the resolution with the
\* cyclic-resolution error (and only such a request does), and every
\* resolution ends: provided, CannotProvide or cyclic-resolution error.
C21_ResolutionTerminates ==
    /\ [](NoPairRecurs /\ Len(med.stack) < MaxDepth)
    /\ [][med'.status = "cyclic" <=> (AskingFieldLoader /\ recurs(med, FieldLoaderRequest, 1))]_vars
    /\ <>ResolutionEnded

\* model A has a field of model B, whose field is of model A again
C21_Witness ==
    /\ med.status = "cyclic"
    /\ med.request.loc = "A"
    /\ Len(med.searches) = 3
    /\ \E i \in 1..Len(med.recipe) : med.recipe[i] = ModelLoaderProvider("B", <<"A">>)

(***************************************************************************)
(* Vocabulary of the properties of concurrent invocations.                 *)
(***************************************************************************)
\* the frame of invocation i while two invocations take turns
FrameOfCall(i) == IF calls.running = i THEN RunningFrame ELSE calls.suspended

CallOver(i) == calls.phase = "both" /\ FrameOfCall(i).outcome.status # "running"

\* C22: two invocations of the same compiled loader that take turns on different
\* inputs do not interfere: whatever the order of their steps, each ends with
\* the outcome (value returned or exception raised) its input gives when loaded
\* alone, and the captured state is not written.
C22_ConcurrentCallsIndependent ==
    /\ code = produce_code(cfg)
    /\ \A i \in 1..2 : CallOver(i) => FrameOfCall(i).outcome = calls.alone[i]

\* both invocations are over, the first was suspended with errors recorded
\* while the second ran, and they ended differently
C22_Witness ==
    /\ CallOver(1) /\ CallOver(2)
    /\ calls.running = 1
    /\ calls.suspended.outcome.status = "returned"
    /\ outcome.status = "raised"
    /\ Len(log) > 0

(***************************************************************************)
(* Vocabulary of the properties of a request resolved twice.               *)
(***************************************************************************)
ResolvedTwice == prov.first.status # "none" /\ prov.status \in {"produced", "failed"}

BothCalled == calls.phase = "twice" /\ calls.alone # <<>> /\ outcome.status \notin {"idle", "running"}

LeafEnded == leaf.status \in {"returned", "raised"}

Blank(chars, from, to) == \A k \in from..to : chars[k] = " "

\* the number written by the digits at from..to, the last digit being the units
RECURSIVE NumberOf(_, _, _)
NumberOf(chars, from, to) ==
    IF to < from THEN 0 ELSE DigitValue(chars[to]) + 10 * NumberOf(chars, from, to - 1)

\* the ways to read the text as blanks, an optional sign, digits, blanks
Readings(chars) ==
    {r \in [sign : {"", "-", "+"}, from : 1..Len(chars), to : 1..Len(chars)] :
        /\ r.from <= r.to
        /\ \A k \in r.from..r.to : IsDigit(chars[k])
        /\ Blank(chars, r.to + 1, Len(chars))
        /\ IF r.sign = "" THEN Blank(chars, 1, r.from - 1)
           ELSE r.from > 1 /\ chars[r.from - 1] = r.sign /\ Blank(chars, 1, r.from - 2)}

LeafReturned(v) == leaf.status = "returned" /\ leaf.value = v

LeafRaised(exc) == leaf.status = "raised" /\ leaf.exc = exc

\* C24: the int loader returns an int unchanged; under strict coercion every
\* other input is a type load error; without it a numeric text is converted
\* to its value, any other text is a value load error and None a type load
\* error; the debug-trail level has no part in the outcome.
C24_IntLoaderCases ==
    LeafEnded =>
        IF leaf.data.t = "int" THEN LeafReturned(leaf.data)
        ELSE IF leaf.strict_coercion THEN LeafRaised("TypeLoadError")
        ELSE IF leaf.data.t = "none" THEN LeafRaised("TypeLoadError")
        ELSE IF Readings(leaf.data.p) = {} THEN LeafRaised("ValueLoadError")
        ELSE \A r \in Readings(leaf.data.p) :
                LET n == NumberOf(leaf.data.p, r.from, r.to)
                IN LeafReturned(IntV(IF r.sign = "-" THEN 0 - n ELSE n))

C24_Witness ==
    /\ LeafReturned(IntV(100))
    /\ leaf.data = StrV(<<"1", "0", "0">>)
    /\ ~leaf.strict_coercion
    /\ leaf.debug_trail = "ALL"


(***************************************************************************)
(* C25 (as stated): under ALL, for each dict branch whose slice misses     *)
(* required keys, however many, exactly one missing-required-fields error  *)
(* is recorded for the branch; it carries the branch's path and its field  *)
(* set is the branch's required keys minus the keys present in the slice.  *)
(***************************************************************************)
\* the positions of the accumulator holding a missing-required-fields error of branch bp
RecordedMissingAt(bp) ==
    {i \in 1..Len(errors) : errors[i].kind = "NoRequiredFieldsError" /\ errors[i].trail = bp}

C25_OneMissingErrorPerBranch ==
    \A bp \in BranchPaths(cfg.crown) :
        (/\ Finished
         /\ cfg.trail = "ALL"
         /\ MissesRequired(bp))
        => /\ Cardinality(RecordedMissingAt(bp)) = 1
           /\ \A i \in RecordedMissingAt(bp) : errors[i].keys = MissingKeysAt(bp)


(***************************************************************************)
(* C26: when unknown data goes to designated fields and the call reaches   *)
(* the constructor, under a Collect root every designated field's loader   *)
(* has been applied once, to all of the root's collected unknown data;     *)
(* under any other root policy every required designated field's loader    *)
(* has been applied once, to an empty mapping; in both cases the field     *)
(* holds what its loader returned, which is what the constructor is given. *)
(***************************************************************************)
ToTargets == cfg.extra_move.k = "targets"

Targets == SeqRange(cfg.extra_move.fields)

AtConstructor == pc # 0 /\ code[pc].op \in {"construct", "return_construct"}

\* the loader of field fid was applied exactly once, to arg, and the field holds what it returned
LoadedOnceFrom(fid, arg) ==
    \E i \in Calls("load", fid) :
        /\ Calls("load", fid) = {i}
        /\ log[i].arg = arg
        /\ fld[fid] = field_loader(arg).v
        /\ fid \in PassedFields

C26_TargetsGetCollectedExtra ==
    (AtConstructor /\ ToTargets) =>
        \A target \in Targets :
            IF cfg.crown.pol = "collect"
            THEN /\ LoadedOnceFrom(target, extra[<<>>])
                 /\ extra[<<>>] = MapV([k \in UnknownKeys(cfg.crown, Input) |-> Input.m[k]])
            ELSE cfg.fields[target].req => LoadedOnceFrom(target, MapV(EmptyMap))

C26_Witness ==
    /\ AtConstructor
    /\ ToTargets
    /\ cfg.crown.pol = "collect"
    /\ Len(cfg.extra_move.fields) = 2
    /\ UnknownKeys(cfg.crown, Input) # {}
    /\ \A target \in Targets : LoadedOnceFrom(target, extra[<<>>])


(***************************************************************************)
(* C27 (as stated): whenever a call reaches the constructor call, every    *)
(* field passed to the constructor as a positional or keyword argument has *)
(* been assigned earlier in the call, designated fields that are optional  *)
(* included, and under ALL the error accumulator is then empty.            *)
(***************************************************************************)
C27_ConstructorArgumentsAssigned ==
    AtConstructor =>
        /\ \A f \in PassedFields : fld[f] # Unbound
        /\ cfg.trail = "ALL" => errors = <<>>


(***************************************************************************)
(* C28 (as stated): for every crown, shape and debug-trail level the       *)
(* emitted body is well-formed: every try block is followed by an except   *)
(* clause before any else, every else follows a try/except or an if, so    *)
(* that the routine compiles.                                              *)
(***************************************************************************)
C28_BodyWellFormed ==
    /\ WellFormed(body_text(cfg, code, 1, 0))
    /\ Compiles(cfg, code)


(***************************************************************************)
(* C29: when unknown data can be consumed and the load returned, the extra *)
(* value of every nested branch is found in its parent's extra value at    *)
(* the branch's key or index, empty or not; apart from the entries of its  *)
(* child branches the extra value of a dict branch holds exactly the       *)
(* slice's entries with unknown keys under Collect, nothing otherwise.     *)
(***************************************************************************)
\* the keys under which the child branches of the crown put their extra values
ChildBranchKeys(crown) ==
    {ChildKey(crown, i) : i \in {j \in 1..Len(crown.ch) : IsBranch(crown.ch[j])}}

\* the entry of the extra value of branch parent at key or index key
ExtraEntry(parent, key) ==
    IF extra[parent].t = "seq" THEN extra[parent].s[Idx(key) + 1] ELSE extra[parent].m[key]

HasExtraEntry(parent, key) ==
    IF extra[parent].t = "seq" THEN IsIdx(key) /\ Idx(key) + 1 <= Len(extra[parent].s)
    ELSE extra[parent].t = "map" /\ key \in DOMAIN extra[parent].m

OwnEntries(bp) ==
    LET crown == CrownAt(cfg.crown, bp)
    IN [k \in DOMAIN extra[bp].m \ ChildBranchKeys(crown) |-> extra[bp].m[k]]

UnknownEntries(bp) ==
    LET slice == SliceAt(Input, bp)
    IN [k \in UnknownKeys(CrownAt(cfg.crown, bp), slice) |-> slice.m[k]]

C29_ExtraNestsChildExtras ==
    (Returned /\ can_collect_extra(cfg)) =>
        \A bp \in BranchPaths(cfg.crown) :
            /\ bp # <<>> =>
                  /\ HasExtraEntry(ParentPath(bp), LastEl(bp))
                  /\ ExtraEntry(ParentPath(bp), LastEl(bp)) = extra[bp]
            /\ CrownAt(cfg.crown, bp).k = "dict" =>
                  /\ extra[bp].t = "map"
                  /\ OwnEntries(bp) = IF CrownAt(cfg.crown, bp).pol = "collect"
                                      THEN UnknownEntries(bp) ELSE EmptyMap

C29_Witness ==
    /\ Returned
    /\ cfg.name = "items"
    /\ cfg.crown.pol = "collect"
    /\ UnknownEntries(<<"#1">>) # EmptyMap
    /\ extra[<<>>].s[2] = extra[<<"#1">>]
    /\ OwnEntries(<<"#1">>) = UnknownEntries(<<"#1">>)


(***************************************************************************)
(* C30: while a model loader or a model dumper is resolved, CannotProvide  *)
(* for the code-generation hook is absorbed (the stub hook is used, the    *)
(* resolution goes on and produces its routine), while CannotProvide for   *)
(* any other sub-request ends the resolution at once with CannotProvide;   *)
(* a resolution fails with CannotProvide for no other reason.              *)
(***************************************************************************)
HookRequest == <<"CodeGenHookRequest", "">>

Refused(request) == \E i \in 1..Len(prov.refused) : prov.refused[i] = request

RequiredRefused == \E i \in 1..Len(prov.refused) : prov.refused[i] # HookRequest

ResolvesSerializer == prov.requests # <<>> /\ prov.requests[1][1] = "OutputFigureRequest"

C30_HookAbsorbedOthersPropagate ==
    /\ Refused(HookRequest) =>
          /\ prov.hook = "stub"
          /\ prov.error = ""
          /\ prov.status = "produced" \/ ProvAt("compile") \/ ProvAt("compile_serializer")
    /\ RequiredRefused =>
          /\ prov.status = "failed"
          /\ prov.error = "CannotProvide"
          /\ prov.refused = <<prov.requests[Len(prov.requests)]>>
    /\ prov.error = "CannotProvide" => RequiredRefused

C30_Witness ==
    /\ ResolvesSerializer
    /\ prov.status = "produced"
    /\ Refused(HookRequest)
    /\ Len(prov.requests) >= 5

====
